---- MODULE Spec2Model ----
(***************************************************************************)
(* Model of the godex streaming event pipeline: the process adapter        *)
(* (codexexec.Runner.Run), the envelope decoder (decodeThreadEvent), the   *)
(* stream coordinator (Thread.runStreamed, Stream), the single-shot        *)
(* consumer (Thread.run, RunJSON), the callback dispatcher                 *)
(* (StreamCallbacks.handle) and the structured output extractor            *)
(* (RunStreamedJSON).                                                      *)
(***************************************************************************)
EXTENDS Integers, Sequences, FiniteSets, TLC

\* ---------------------------------------------------------------- bounds
MaxLen == 3          \* longest process output (in lines) of a streaming run
MaxRunLen == 3       \* longest process output of a single-shot run
MaxJSONLen == 2      \* longest process output of a RunJSON run
MaxTapLen == 2       \* longest process output of a RunStreamedJSON run
MaxChanges == 2      \* longest change list of a file_change item
MaxRegistered == 2   \* callback sets: at most this many hooks set, or unset
MaxReuseLen == 2     \* longest process output of a run of a reused Thread
MaxRuns == 2         \* sequential runs of one Thread
MaxSegments == 3     \* input segments of a run
MaxStallLen == 1     \* longest process output of a structured run checked for termination
MaxCloseLen == 2     \* longest process output of a run checked for termination
MaxCalls == 2        \* calls of ensureBundledBinary on one cache directory
MaxRunnerLen == 3    \* lines of an output with malformed and oversized lines
MaxAgreeLen == 2     \* longest process output handed to RunJSON and then to RunStreamedJSON

\* -------------------------------------------------------- program constants
runStreamedJSONEventBuffer == 16

\* ------------------------------------------------------------------ strings
\* Message texts are sequences of one-character strings, so that
\* strings.ToLower, strings.Contains and fmt's format scan work on characters.
sBoom == <<"b","o","o","m">>
sSchema == <<"s","c","h","e","m","a">>
sBadSchema == <<"B","a","d"," ","S","c","h","e","m","a">>
sValidation == <<"v","a","l","i","d","a","t","i","o","n">>
sStructured == <<"s","t","r","u","c","t","u","r","e","d"," ","o","u","t","p","u","t">>
sPctSchema == <<"%","s","c","h","e","m","a">>
sSchemaPct == <<"s","c","h","e","m","a"," ","1","%">>
sRatePct == <<"r","a","t","e"," ","%","d">>
sEmpty == <<>>

\* ------------------------------------------------------------------- errors
Nil == [kind |-> "nil"]
Canceled == [kind |-> "context.Canceled"]
DeadlineExceeded == [kind |-> "context.DeadlineExceeded"]
ErrNoStructuredOutput == [kind |-> "structured output not returned"]
ThreadStreamError(m) == [kind |-> "ThreadStreamError", Message |-> m]
SchemaViolationError(m) == [kind |-> "SchemaViolationError", Message |-> m]
ErrorsNew(m) == [kind |-> "errorString", Message |-> m]
Wrap(prefix, err) == [kind |-> prefix, wraps |-> err]
ExitError(code, text) ==
    [kind |-> "codex exec failed with code", code |-> code, stderr |-> text]
ErrTooLong == [kind |-> "bufio.Scanner: token too long"]

RECURSIVE ErrorsIs(_, _)
ErrorsIs(err, target) ==
    IF err = target THEN TRUE
    ELSE IF "wraps" \in DOMAIN err THEN ErrorsIs(err.wraps, target)
    ELSE FALSE

\* errors.As(err, *ThreadStreamError)
RECURSIVE AsThreadStreamError(_)
AsThreadStreamError(err) ==
    IF err.kind = "ThreadStreamError" THEN TRUE
    ELSE IF "wraps" \in DOMAIN err THEN AsThreadStreamError(err.wraps)
    ELSE FALSE

\* --------------------------------------------------------------- wire lines
EventTypes == {"thread.started", "turn.started", "turn.completed", "turn.failed",
               "item.started", "item.updated", "item.completed", "error"}
ItemEventTypes == {"item.started", "item.updated", "item.completed"}
ItemTypes == {"agent_message", "reasoning", "command_execution", "file_change",
              "mcp_tool_call", "web_search", "todo_list", "error"}

LThreadStarted(id) == [json |-> TRUE, type |-> "thread.started", thread_id |-> id]
LTurnStarted == [json |-> TRUE, type |-> "turn.started"]
LTurnCompleted(u) == [json |-> TRUE, type |-> "turn.completed", usage |-> u]
LTurnFailed(m) == [json |-> TRUE, type |-> "turn.failed", error |-> [message |-> m]]
LError(m) == [json |-> TRUE, type |-> "error", message |-> m]
LItem(t, item) == [json |-> TRUE, type |-> t, item |-> item]
LMalformed == [json |-> FALSE, type |-> ""]
LUnknown == [json |-> TRUE, type |-> "turn.unknown"]
\* A line longer than maxLineSize; fits: what the subprocess writes after
\* the first maxLineSize bytes of it fits in the pipe's buffer.
LTooLong(fits) == [json |-> TRUE, type |-> "turn.started", over |-> TRUE, fits |-> fits]
TooLong(line) == "over" \in DOMAIN line
LUnknownItem == [json |-> TRUE, type |-> "item.completed",
                 item |-> [type |-> "unknown_item", id |-> "x"]]

WAgentMessage(id, text) == [type |-> "agent_message", id |-> id, text |-> text]
WReasoning(id, text) == [type |-> "reasoning", id |-> id, text |-> text]
WCommand(id) == [type |-> "command_execution", id |-> id, command |-> "go test",
                 aggregated_output |-> "ok", status |-> "in_progress"]
WFileChange(id, changes) == [type |-> "file_change", id |-> id, changes |-> changes,
                             status |-> "completed"]
WToolCall(id) == [type |-> "mcp_tool_call", id |-> id, server |-> "srv", tool |-> "t",
                  status |-> "completed"]
WWebSearch(id) == [type |-> "web_search", id |-> id, query |-> "q"]
WTodoList(id) == [type |-> "todo_list", id |-> id, items |-> <<>>]
WErrorItem(id) == [type |-> "error", id |-> id, message |-> sBoom]

Usage1 == [input_tokens |-> 1, cached_input_tokens |-> 0, output_tokens |-> 1]
Usage2 == [input_tokens |-> 2, cached_input_tokens |-> 1, output_tokens |-> 3]

\* ------------------------------------------------------------------ decoder
\* A JSON object is a record of its members; the members whose value is the
\* JSON null are named in its member "nulls" instead.  json.Unmarshal leaves
\* the zero value in a field whose member is missing or null.
Nulls(o) == IF "nulls" \in DOMAIN o THEN o.nulls ELSE {}
Has(o, f) == f \in DOMAIN o
Field(o, f, zero) == IF Has(o, f) THEN o[f] ELSE zero
NilPointer == [nil |-> TRUE]
PointerTo(v) == [nil |-> FALSE, v |-> v]

ChangeOf(c) == [Path |-> Field(c, "path", ""), Kind |-> Field(c, "kind", "")]
TodoOf(t) == [Text |-> Field(t, "text", ""), Completed |-> Field(t, "completed", FALSE)]

\* decodeThreadItem: the item's own discriminant selects the variant.
ItemOf(w) ==
    CASE w.type = "agent_message" ->
           [Type |-> w.type, ID |-> Field(w, "id", ""), Text |-> Field(w, "text", "")]
      [] w.type = "reasoning" ->
           [Type |-> w.type, ID |-> Field(w, "id", ""), Text |-> Field(w, "text", "")]
      [] w.type = "command_execution" ->
           [Type |-> w.type, ID |-> Field(w, "id", ""),
            Command |-> Field(w, "command", ""),
            AggregatedOutput |-> Field(w, "aggregated_output", ""),
            ExitCode |-> IF Has(w, "exit_code") THEN PointerTo(w.exit_code)
                                                ELSE NilPointer,
            Status |-> Field(w, "status", "")]
      [] w.type = "file_change" ->
           [Type |-> w.type, ID |-> Field(w, "id", ""),
            Changes |-> LET ch == Field(w, "changes", <<>>)
                        IN [i \in 1..Len(ch) |-> ChangeOf(ch[i])],
            Status |-> Field(w, "status", "")]
      [] w.type = "mcp_tool_call" ->
           [Type |-> w.type, ID |-> Field(w, "id", ""), Server |-> Field(w, "server", ""),
            Tool |-> Field(w, "tool", ""), Status |-> Field(w, "status", "")]
      [] w.type = "web_search" ->
           [Type |-> w.type, ID |-> Field(w, "id", ""), Query |-> Field(w, "query", "")]
      [] w.type = "todo_list" ->
           [Type |-> w.type, ID |-> Field(w, "id", ""),
            Items |-> LET it == Field(w, "items", <<>>)
                      IN [i \in 1..Len(it) |-> TodoOf(it[i])]]
      [] w.type = "error" ->
           [Type |-> w.type, ID |-> Field(w, "id", ""),
            Message |-> Field(w, "message", <<>>)]

\* Mutant: an item of an unrecognized type decodes to an agent message
\* without text.
decodeThreadItemDefault(line) ==
    IF ~Has(line, "item") /\ "item" \notin Nulls(line)
      THEN [err |-> Wrap("decode item envelope", ErrorsNew(<<>>))]
    ELSE LET w == IF Has(line, "item") THEN line.item ELSE [nulls |-> {}]
             t == Field(w, "type", "")
         IN IF t \in ItemTypes
              THEN [err |-> Nil, item |-> ItemOf(w)]
              ELSE [err |-> Nil,
                    item |-> [Type |-> "agent_message", ID |-> Field(w, "id", ""),
                              Text |-> ""]]

\* The raw `item` member: missing (no bytes to decode), null (decodes to an
\* empty envelope) or an object.
decodeThreadItem(line) ==
    IF ~Has(line, "item") /\ "item" \notin Nulls(line)
      THEN [err |-> Wrap("decode item envelope", ErrorsNew(<<>>))]
    ELSE LET w == IF Has(line, "item") THEN line.item ELSE [nulls |-> {}]
             t == Field(w, "type", "")
         IN IF t \in ItemTypes
              THEN [err |-> Nil, item |-> ItemOf(w)]
              ELSE [err |-> [kind |-> "unknown item type", type |-> t]]

decodeItemEvent(line, eventType) ==
    LET r == decodeThreadItem(line)
    IN IF r.err # Nil
         THEN [err |-> Wrap("decode item", r.err)]
         ELSE [err |-> Nil, event |-> [Type |-> eventType, Item |-> r.item]]

UsageOf(u) ==
    [InputTokens |-> Field(u, "input_tokens", 0),
     CachedInputTokens |-> Field(u, "cached_input_tokens", 0),
     OutputTokens |-> Field(u, "output_tokens", 0)]

decodeThreadEvent(line) ==
    IF ~line.json THEN [err |-> Wrap("decode event envelope", ErrorsNew(<<>>))]
    ELSE LET t == Field(line, "type", "")
         IN CASE t = "thread.started" ->
                [err |-> Nil, event |-> [Type |-> t,
                                         ThreadID |-> Field(line, "thread_id", "")]]
           [] t = "turn.started" ->
                [err |-> Nil, event |-> [Type |-> t]]
           [] t = "turn.completed" ->
                [err |-> Nil, event |-> [Type |-> t,
                   Usage |-> UsageOf(Field(line, "usage", [nulls |-> {}]))]]
           [] t = "turn.failed" ->
                [err |-> Nil, event |-> [Type |-> t,
                   Error |-> [Message |->
                                Field(Field(line, "error", [nulls |-> {}]), "message", <<>>)]]]
           [] t \in ItemEventTypes -> decodeItemEvent(line, t)
           [] t = "error" ->
                [err |-> Nil, event |-> [Type |-> t,
                                         Message |-> Field(line, "message", <<>>)]]
           [] OTHER -> [err |-> [kind |-> "unknown event type", type |-> t]]

Decodes(line) == decodeThreadEvent(line).err = Nil
EventOf(line) == decodeThreadEvent(line).event

SeqsUpTo(S, n) == UNION {[1..k -> S] : k \in 0..n}
IsPrefix(s, t) == Len(s) <= Len(t) /\ SubSeq(t, 1, Len(s)) = s
NoEvent == [Type |-> "none"]

\* -------------------------------------------------------------------- state
VARIABLES
    output,        \* the lines the subprocess writes when left alone
    stdout,        \* the lines the scanner can still read from the pipe
    exitCode,      \* the exit code of the subprocess when it is not killed
    stderrBuf,     \* what the subprocess wrote to its standard error
    proc,          \* "running", "exited" or "killed"
    turnOpts,      \* TurnOptions of the run: OutputSchema / Callbacks set or nil
    ppc,           \* position of the producer goroutine
    cur,           \* the line or event the producer is handling
    readErr,       \* result of the scan loop of Runner.Run
    runRet,        \* value returned by exec.Run
    threadErr,     \* ThreadStreamError captured by the line handler
    eventsClosed,  \* the events channel of the Stream is closed
    streamErr,     \* Stream.err
    done,          \* Stream.done is closed
    threadID,      \* Thread.id
    schemaFile,    \* the temporary schema file exists
    ctxDone,       \* the run's context is cancelled
    cancelRunning, \* cancellation was requested while the subprocess ran
    cancelBy,      \* who cancelled first: "none", "caller" or "Close"
    decoded,       \* events decoded so far, in order
    received,      \* events received from Events(), in order
    callbackLog,   \* events for which StreamCallbacks.handle has returned
    cpc,           \* caller of a streaming run: "recv"/"closed"; of a structured one: "reading"/"stalled"
    waitResult,    \* value returned by Wait, Pending before it returns
    waitDrained,   \* the channels were seen closed before Wait was called
    api,           \* entry point: "Run", "RunJSON" or "RunStreamedJSON"
    rpc,           \* position of Thread.run
    items,         \* Thread.run: items collected
    finalMessage,  \* Thread.run: text of the last completed agent message
    varUsage,      \* Thread.run: usage of the last turn.completed, or NoUsage
    turnFailure,   \* Thread.run: ThreadError of the turn.failed seen, or NoFailure
    result,        \* what Run / RunJSON returned
    jsonOpts,      \* RunJSONOptions of a structured-output run, then its runJSONConfig
    tpc,           \* position of the RunStreamedJSON tap goroutine
    tev,           \* event the tap is processing
    deliveredFinal,
    turnCompleted,
    shErr,         \* sharedError.err
    evBuf,         \* buffered events channel of RunStreamedJSON
    upBuf,         \* buffered updates channel of RunStreamedJSON
    evClosed,
    upClosed,
    gotEvents,     \* events the caller received from Events()
    gotUpdates,    \* snapshots the caller received from Updates()
    dEvent,        \* dispatcher: the event handed to handle
    dCallbacks,    \* dispatcher: the registered hooks, or NilCallbacks
    dLog,          \* dispatcher: the callback invocations, in order
    xLine,         \* decoder: the line handed to decodeThreadEvent
    xpc,           \* decoder: "line", "decoded", "encoded" or "redecoded"
    xFirst,        \* decoder: result of decoding xLine
    xJSON,         \* decoder: the decoded event marshalled again
    xSecond,       \* decoder: result of decoding xJSON
    runLog,        \* per run of a reused Thread: Args.ThreadID, and the events decoded
    bundleCfg,     \* bootstrap: platform supported, configured checksum
    cacheFile,     \* bootstrap: digest of the file at destPath, or NoFile
    bpc,           \* bootstrap: position of ensureBundledBinary
    bundleRet,     \* bootstrap: what ensureBundledBinary returned
    downloads,     \* bootstrap: calls of downloadBinaryFunc in the current call
    ensureCalls,   \* bootstrap: calls of ensureBundledBinary so far
    inBase,        \* input: base prompt handed to normalizeInput
    inSegments,    \* input: segments handed to normalizeInput
    ipc,           \* input: position of normalizeInput and of the run that uses it
    inI,           \* input: index of the segment the loop is at
    promptParts,   \* input: text fragments collected
    inImages,      \* input: image paths collected
    inResult,      \* input: what normalizeInput returned
    adapterArgs,   \* input: Input and Images of the Args handed to the adapter
    cleanups,      \* input: positions of the segments whose cleanup was collected
    released       \* input: positions of the segments whose cleanup ran, in order

vProc == <<output, stdout, exitCode, stderrBuf, proc>>
vProd == <<turnOpts, ppc, cur, readErr, runRet, threadErr, eventsClosed, streamErr,
           done, threadID, schemaFile>>
vCtx == <<ctxDone, cancelRunning, cancelBy>>
vHist == <<decoded, received, callbackLog>>
vCons == <<cpc, waitResult, waitDrained>>
vRun == <<api, rpc, items, finalMessage, varUsage, turnFailure, result, jsonOpts>>
vTap == <<tpc, tev, deliveredFinal, turnCompleted, shErr, evBuf, upBuf, evClosed,
          upClosed, gotEvents, gotUpdates>>
vDisp == <<dEvent, dCallbacks, dLog>>
vBoot == <<bundleCfg, cacheFile, bpc, bundleRet, downloads, ensureCalls>>
vInput == <<inBase, inSegments, ipc, inI, promptParts, inImages, inResult, adapterArgs,
            cleanups, released>>
vAux == <<vBoot, vInput>>
vExt == <<xLine, xpc, xFirst, xJSON, xSecond, runLog, vAux>>
vars == <<vProc, vProd, vCtx, vHist, vCons, vRun, vTap, vDisp, vExt>>

Pending == [kind |-> "pending"]
NoUsage == [none |-> TRUE]
NoFailure == [none |-> TRUE]
NoResult == [returned |-> FALSE]
NilCallbacks == [nil |-> TRUE, set |-> {}]
NoOptions == [none |-> TRUE]
UnusedOpts == [OutputSchema |-> FALSE, Callbacks |-> FALSE]

\* -------------------------------------------------- initial state, by part
InitProducerWith(lines, opts, start, texts) ==
    /\ output \in lines
    /\ stdout = output
    /\ exitCode \in {0, 1}
    /\ stderrBuf \in texts
    /\ proc = "running"
    /\ turnOpts \in opts
    /\ ppc = start
    /\ cur = NoEvent
    /\ readErr = Nil
    /\ runRet = Nil
    /\ threadErr = Nil
    /\ eventsClosed = FALSE
    /\ streamErr = Nil
    /\ done = FALSE
    /\ threadID = ""
    /\ schemaFile = turnOpts.OutputSchema
    /\ ctxDone = FALSE
    /\ cancelRunning = FALSE
    /\ cancelBy = "none"
    /\ decoded = <<>>
    /\ received = <<>>
    /\ callbackLog = <<>>

\* A subprocess that writes nothing to its standard error.
InitProducer(lines, opts, start) == InitProducerWith(lines, opts, start, {""})

IdleProducer ==
    /\ output = <<>>
    /\ stdout = <<>>
    /\ exitCode = 0
    /\ stderrBuf = ""
    /\ proc = "exited"
    /\ turnOpts = UnusedOpts
    /\ ppc = "idle"
    /\ cur = NoEvent
    /\ readErr = Nil
    /\ runRet = Nil
    /\ threadErr = Nil
    /\ eventsClosed = FALSE
    /\ streamErr = Nil
    /\ done = FALSE
    /\ threadID = ""
    /\ schemaFile = FALSE
    /\ ctxDone = FALSE
    /\ cancelRunning = FALSE
    /\ cancelBy = "none"
    /\ decoded = <<>>
    /\ received = <<>>
    /\ callbackLog = <<>>

IdleConsumer == cpc = "idle" /\ waitResult = Pending /\ waitDrained = FALSE

IdleRun ==
    /\ api = "none"
    /\ rpc = "idle"
    /\ items = <<>>
    /\ finalMessage = ""
    /\ varUsage = NoUsage
    /\ turnFailure = NoFailure
    /\ result = NoResult
    /\ jsonOpts = NoOptions

IdleTap ==
    /\ tpc = "idle"
    /\ tev = NoEvent
    /\ deliveredFinal = FALSE
    /\ turnCompleted = FALSE
    /\ shErr = Nil
    /\ evBuf = <<>>
    /\ upBuf = <<>>
    /\ evClosed = FALSE
    /\ upClosed = FALSE
    /\ gotEvents = <<>>
    /\ gotUpdates = <<>>

IdleDispatch == dEvent = NoEvent /\ dCallbacks = NilCallbacks /\ dLog = <<>>

NoLine == [none |-> TRUE]
IdleDecode ==
    /\ xLine = NoLine
    /\ xpc = "idle"
    /\ xFirst = NoResult
    /\ xJSON = NoLine
    /\ xSecond = NoResult
NoFile == "none"
NoArgs == [none |-> TRUE]
IdleBoot ==
    /\ bundleCfg = NoOptions
    /\ cacheFile = NoFile
    /\ bpc = "idle"
    /\ bundleRet = NoResult
    /\ downloads = 0
    /\ ensureCalls = 0
IdleInput ==
    /\ inBase = ""
    /\ inSegments = <<>>
    /\ ipc = "idle"
    /\ inI = 0
    /\ promptParts = <<>>
    /\ inImages = <<>>
    /\ inResult = NoResult
    /\ adapterArgs = NoArgs
    /\ cleanups = <<>>
    /\ released = <<>>
IdleAux == IdleBoot /\ IdleInput
IdleExt == IdleDecode /\ runLog = <<>> /\ IdleAux

\* ----------------------------------------------------- subprocess, context
WriterBlocked == \E i \in 1..Len(stdout) : TooLong(stdout[i]) /\ ~stdout[i].fits

\* The subprocess finishes writing and exits on its own.  Its writes are
\* taken by the pipe, but the tail of a line that the scanner gave up on and
\* that exceeds the pipe's buffer is never taken.
ProcExit ==
    /\ ppc # "idle"
    /\ proc = "running"
    /\ ~WriterBlocked
    /\ proc' = "exited"
    /\ UNCHANGED <<output, stdout, exitCode, stderrBuf, vProd, vCtx, vHist, vCons, vRun, vTap, vDisp, vExt>>

\* exec.CommandContext kills the subprocess once the context is done; the
\* lines it had not written yet are never read.
CtxKill ==
    /\ ctxDone
    /\ proc = "running"
    /\ proc' = "killed"
    /\ \E k \in 0..Len(stdout) : stdout' = SubSeq(stdout, 1, k)
    /\ UNCHANGED <<output, exitCode, stderrBuf, vProd, vCtx, vHist, vCons, vRun, vTap, vDisp, vExt>>

\* The caller cancels the context of the run, or calls Close (Stream.Close
\* calls cancel before waiting).
Cancel ==
    /\ ppc # "idle"
    /\ ~ctxDone
    /\ ctxDone' = TRUE
    /\ cancelRunning' = (proc = "running")
    /\ cancelBy' = "caller"
    /\ UNCHANGED <<vProc, vProd, vHist, vCons, vRun, vTap, vDisp, vExt>>

\* ------------------------------------------------------ producer goroutine
\* Mutant: cmd.Process.Kill() is not called.
KilledLeftRunning(p) == p

\* cmd.Process.Kill() on the subprocess.
Killed(p) == IF p = "running" THEN "killed" ELSE p

\* scanner.Scan() in Runner.Run: the next line, a line over the scanner's
\* limit (scanner.Err() is then bufio.ErrTooLong), or the end of the output.
Scan ==
    /\ ppc = "scan"
    /\ \/ /\ stdout # <<>>
          /\ ~TooLong(Head(stdout))
          /\ cur' = Head(stdout)
          /\ stdout' = Tail(stdout)
          /\ ppc' = "handle"
          /\ UNCHANGED readErr
       \/ /\ stdout # <<>>
          /\ TooLong(Head(stdout))
          /\ readErr' = ErrTooLong
          /\ ppc' = "wait"
          /\ UNCHANGED <<cur, stdout>>
       \/ /\ stdout = <<>>
          /\ proc # "running"
          /\ readErr' = Nil
          /\ ppc' = "wait"
          /\ UNCHANGED <<cur, stdout>>
    /\ UNCHANGED <<output, exitCode, stderrBuf, proc, turnOpts, runRet, threadErr, eventsClosed,
                   streamErr, done, threadID, schemaFile, vCtx, vHist, vCons, vRun,
                   vTap, vDisp, vExt>>

\* Mutant: the identifier of a started thread is not stored.
setIDNever(event) == threadID

\* The handler's `if started, ok := event.(ThreadStartedEvent)` with
\* Thread.setID: the value of Thread.id after it.
setID(event) == IF event.Type = "thread.started" THEN event.ThreadID ELSE threadID

\* Mutant: the handler does not remember a stream-level error.
HandleLineForgetsError ==
    /\ ppc = "handle"
    /\ LET r == decodeThreadEvent(cur)
       IN IF r.err # Nil
            THEN /\ readErr' = Wrap("parse event", r.err)
                 /\ proc' = Killed(proc)
                 /\ ppc' = "wait"
                 /\ cur' = NoEvent
                 /\ UNCHANGED <<threadID, threadErr, decoded>>
            ELSE /\ threadID' = setID(r.event)
                 /\ threadErr' = threadErr
                 /\ decoded' = Append(decoded, r.event)
                 /\ cur' = r.event
                 /\ ppc' = "send"
                 /\ UNCHANGED <<readErr, proc>>
    /\ UNCHANGED <<output, stdout, exitCode, stderrBuf, turnOpts, runRet, eventsClosed, streamErr,
                   done, schemaFile, vCtx, received, callbackLog, vCons, vRun, vTap,
                   vDisp, vExt>>

\* The line handler of runStreamed up to its select: decode, publish the
\* thread id, remember a stream-level error.  A handler error ends the scan
\* loop and kills the subprocess.
HandleLine ==
    /\ ppc = "handle"
    /\ LET r == decodeThreadEvent(cur)
       IN IF r.err # Nil
            THEN /\ readErr' = Wrap("parse event", r.err)
                 /\ proc' = Killed(proc)
                 /\ ppc' = "wait"
                 /\ cur' = NoEvent
                 /\ UNCHANGED <<threadID, threadErr, decoded>>
            ELSE /\ threadID' = setID(r.event)
                 /\ threadErr' = IF r.event.Type = "error"
                                   THEN ThreadStreamError(r.event.Message)
                                   ELSE threadErr
                 /\ decoded' = Append(decoded, r.event)
                 /\ cur' = r.event
                 /\ ppc' = "send"
                 /\ UNCHANGED <<readErr, proc>>
    /\ UNCHANGED <<output, stdout, exitCode, stderrBuf, turnOpts, runRet, eventsClosed, streamErr,
                   done, schemaFile, vCtx, received, callbackLog, vCons, vRun, vTap,
                   vDisp, vExt>>

\* Mutant: a non-blocking send that loses the event.
ForwardedLossy ==
    /\ ppc = "send"
    /\ ppc' = "scan"
    /\ cur' = NoEvent
    /\ received' = received
    /\ UNCHANGED <<vProc, turnOpts, readErr, runRet, threadErr, eventsClosed, streamErr,
                   done, threadID, schemaFile, vCtx, decoded, callbackLog>>

\* The producer's half of `events <- event`: the send completes when a
\* receiver takes the event (the channel is unbuffered).
Forwarded ==
    /\ ppc = "send"
    /\ ppc' = "scan"
    /\ cur' = NoEvent
    /\ received' = Append(received, cur)
    /\ UNCHANGED <<vProc, turnOpts, readErr, runRet, threadErr, eventsClosed, streamErr,
                   done, threadID, schemaFile, vCtx, decoded, callbackLog>>

\* Mutant: the handler's select has no ctx.Done() case.
AbandonNever ==
    /\ ppc = "send"
    /\ ctxDone
    /\ UNCHANGED vars

\* `case <-ctx.Done(): return ctx.Err()` of the handler's select.
Abandon ==
    /\ ppc = "send"
    /\ ctxDone
    /\ readErr' = Canceled
    /\ proc' = Killed(proc)
    /\ ppc' = "wait"
    /\ cur' = NoEvent
    /\ UNCHANGED <<output, stdout, exitCode, stderrBuf, turnOpts, runRet, threadErr, eventsClosed,
                   streamErr, done, threadID, schemaFile, vCtx, vHist, vCons, vRun,
                   vTap, vDisp, vExt>>

\* Mutant: the captured standard error is left out of the exit error.
WaitErrWithoutStderr(p, code, text) ==
    IF p = "killed" THEN ExitError(-1, "")
    ELSE IF code # 0 THEN ExitError(code, "") ELSE Nil

\* cmd.Wait()'s error, as Runner.Run reports it with code and standard error.
WaitErr(p, code, text) ==
    IF p = "killed" THEN ExitError(-1, text)
    ELSE IF code # 0 THEN ExitError(code, text) ELSE Nil

\* Mutant: the exit status of the subprocess is reported before the context
\* is consulted.
RunnerResultExitFirst(rErr, wErr, ctxErr) ==
    IF rErr # Nil
      THEN IF ctxErr # Nil /\ ErrorsIs(rErr, ctxErr) THEN ctxErr
           ELSE IF ErrorsIs(rErr, Canceled) \/ ErrorsIs(rErr, DeadlineExceeded)
             THEN IF ctxErr # Nil THEN ctxErr ELSE rErr
           ELSE Wrap("reading codex output", rErr)
    ELSE IF wErr # Nil THEN wErr
    ELSE IF ctxErr # Nil THEN ctxErr
    ELSE Nil

\* The value Runner.Run returns, from the scan loop's error, cmd.Wait's
\* error and ctx.Err().
RunnerResult(rErr, wErr, ctxErr) ==
    IF rErr # Nil
      THEN IF ctxErr # Nil /\ ErrorsIs(rErr, ctxErr) THEN ctxErr
           ELSE IF ErrorsIs(rErr, Canceled) \/ ErrorsIs(rErr, DeadlineExceeded)
             THEN IF ctxErr # Nil THEN ctxErr ELSE rErr
           ELSE Wrap("reading codex output", rErr)
    ELSE IF wErr # Nil
      THEN IF ctxErr # Nil THEN ctxErr ELSE wErr
    ELSE IF ctxErr # Nil THEN ctxErr
    ELSE Nil

\* Mutant: Run does not consult ctx.Err().
RunnerReturnIgnoresContext ==
    /\ ppc = "wait"
    /\ proc # "running"
    /\ runRet' = RunnerResult(readErr, WaitErr(proc, exitCode, stderrBuf), Nil)
    /\ ppc' = "seterr"
    /\ UNCHANGED <<vProc, turnOpts, cur, readErr, threadErr, eventsClosed, streamErr,
                   done, threadID, schemaFile, vCtx, vHist, vCons, vRun, vTap, vDisp, vExt>>

\* cmd.Wait() returns once the subprocess is gone; Run computes its result.
RunnerReturn ==
    /\ ppc = "wait"
    /\ proc # "running"
    /\ runRet' = RunnerResult(readErr, WaitErr(proc, exitCode, stderrBuf),
                              IF ctxDone THEN Canceled ELSE Nil)
    /\ ppc' = "seterr"
    /\ UNCHANGED <<vProc, turnOpts, cur, readErr, threadErr, eventsClosed, streamErr,
                   done, threadID, schemaFile, vCtx, vHist, vCons, vRun, vTap, vDisp, vExt>>

\* Mutant: the error is stored but done is left open.
setErrKeepsDoneOpen(err) == streamErr' = err /\ done' = done

\* Stream.setErr
setErr(err) == streamErr' = err /\ done' = TRUE

\* Mutant: the adapter's result is recorded even when a stream-level error
\* was decoded.
RecordAdapterResult ==
    /\ ppc = "seterr"
    /\ setErr(runRet)
    /\ ppc' = "cleanup"
    /\ UNCHANGED <<vProc, turnOpts, cur, readErr, runRet, threadErr, eventsClosed,
                   threadID, schemaFile, vCtx, vHist, vCons, vRun, vTap, vDisp, vExt>>

\* The producer records the terminal error: the stream-level error when one
\* was decoded, the adapter's result otherwise.
RecordTerminal ==
    /\ ppc = "seterr"
    /\ setErr(IF threadErr # Nil THEN threadErr ELSE runRet)
    /\ ppc' = "cleanup"
    /\ UNCHANGED <<vProc, turnOpts, cur, readErr, runRet, threadErr, eventsClosed,
                   threadID, schemaFile, vCtx, vHist, vCons, vRun, vTap, vDisp, vExt>>

\* Mutant: the deferred cleanup leaves the schema file in place.
CleanupKeepsFile ==
    /\ ppc = "cleanup"
    /\ schemaFile' = schemaFile
    /\ ppc' = "finish"
    /\ UNCHANGED <<vProc, turnOpts, cur, readErr, runRet, threadErr, eventsClosed,
                   streamErr, done, threadID, vCtx, vHist, vCons, vRun, vTap, vDisp, vExt>>

\* deferred cleanup(): the schema file is removed.
Cleanup ==
    /\ ppc = "cleanup"
    /\ schemaFile' = FALSE
    /\ ppc' = "finish"
    /\ UNCHANGED <<vProc, turnOpts, cur, readErr, runRet, threadErr, eventsClosed,
                   streamErr, done, threadID, vCtx, vHist, vCons, vRun, vTap, vDisp, vExt>>

\* Mutant: finish records nil without looking at done.
FinishOverwrites ==
    /\ ppc = "finish"
    /\ setErr(Nil)
    /\ eventsClosed' = TRUE
    /\ ppc' = "done"
    /\ UNCHANGED <<vProc, turnOpts, cur, readErr, runRet, threadErr, threadID,
                   schemaFile, vCtx, vHist, vCons, vRun, vTap, vDisp, vExt>>

\* deferred stream.finish(), then deferred close(events).
FinishAndClose ==
    /\ ppc = "finish"
    /\ IF done THEN UNCHANGED <<streamErr, done>> ELSE setErr(Nil)
    /\ eventsClosed' = TRUE
    /\ ppc' = "done"
    /\ UNCHANGED <<vProc, turnOpts, cur, readErr, runRet, threadErr, threadID,
                   schemaFile, vCtx, vHist, vCons, vRun, vTap, vDisp, vExt>>

Producer ==
    \/ ProcExit \/ CtxKill \/ Scan \/ HandleLine \/ Abandon
    \/ RunnerReturn \/ RecordTerminal \/ Cleanup \/ FinishAndClose

\* ------------------------------------------------ streaming run: RunStreamed
\* The caller receives the next event from Events().
ConsumerRecv ==
    /\ cpc = "recv"
    /\ Forwarded
    /\ UNCHANGED <<vCons, vRun, vTap, vDisp, vExt>>

\* The caller's range over Events() ends: the channel is closed.
ConsumerClosed ==
    /\ cpc = "recv"
    /\ eventsClosed
    /\ cpc' = "closed"
    /\ UNCHANGED <<vProc, vProd, vCtx, vHist, waitResult, waitDrained, vRun, vTap, vDisp, vExt>>

\* Mutant: Wait reads the error without waiting for done.
ConsumerWaitDoesNotBlock ==
    /\ cpc \in {"recv", "closed"}
    /\ waitResult = Pending
    /\ waitResult' = streamErr
    /\ waitDrained' = (cpc = "closed")
    /\ UNCHANGED <<vProc, vProd, vCtx, vHist, cpc, vRun, vTap, vDisp, vExt>>

\* Stream.Wait returns the recorded error once done is closed.
ConsumerWait ==
    /\ cpc \in {"recv", "closed"}
    /\ waitResult = Pending
    /\ done
    /\ waitResult' = streamErr
    /\ waitDrained' = (cpc = "closed")
    /\ UNCHANGED <<vProc, vProd, vCtx, vHist, cpc, vRun, vTap, vDisp, vExt>>

StreamAlphabet ==
    { LThreadStarted("A"), LItem("item.completed", WAgentMessage("m1", "Hello")),
      LTurnCompleted(Usage1), LTurnFailed(sBoom), LError(sBoom), LUnknown }

StreamOptions ==
    { [OutputSchema |-> FALSE, Callbacks |-> TRUE],
      [OutputSchema |-> TRUE, Callbacks |-> FALSE] }

InitStream ==
    /\ InitProducer(SeqsUpTo(StreamAlphabet, MaxLen), StreamOptions, "scan")
    /\ cpc = "recv"
    /\ waitResult = Pending
    /\ waitDrained = FALSE
    /\ IdleRun /\ IdleTap /\ IdleDispatch /\ IdleExt

NextStream ==
    \/ Producer \/ Cancel
    \/ ConsumerRecv \/ ConsumerClosed \/ ConsumerWait

SpecStream == InitStream /\ [][NextStream]_vars

\* Runner.Run under the line handler of runStreamed, over outputs that hold
\* malformed and oversized lines, with a subprocess that may write to its
\* standard error.
RunnerAlphabet ==
    { LThreadStarted("A"), LThreadStarted("B"), LTurnCompleted(Usage1), LError(sBoom),
      LMalformed, LTooLong(TRUE), LTooLong(FALSE) }

StderrTexts == {"", "boom"}

InitRunner ==
    /\ InitProducerWith(SeqsUpTo(RunnerAlphabet, MaxRunnerLen), {UnusedOpts}, "scan",
                        StderrTexts)
    /\ cpc = "recv"
    /\ waitResult = Pending
    /\ waitDrained = FALSE
    /\ IdleRun /\ IdleTap /\ IdleDispatch /\ IdleExt

SpecRunner == InitRunner /\ [][NextStream]_vars

\* The goroutines and the operating system are scheduled fairly: the producer
\* goroutine (and the subprocess and its kill by the context) keeps taking
\* its steps, and a caller blocked in Wait returns once done is closed.  No
\* fairness is assumed of the caller's reading of Events().
InitClose ==
    /\ InitProducer(SeqsUpTo(StreamAlphabet, MaxCloseLen), StreamOptions, "scan")
    /\ cpc = "recv"
    /\ waitResult = Pending
    /\ waitDrained = FALSE
    /\ IdleRun /\ IdleTap /\ IdleDispatch /\ IdleExt

FairStream ==
    InitClose /\ [][NextStream]_vars /\ WF_vars(Producer) /\ WF_vars(ConsumerWait)

\* ------------------------------------------------------- text and formatting
Upper == <<"A","B","C","D","E","F","G","H","I","J","K","L","M",
           "N","O","P","Q","R","S","T","U","V","W","X","Y","Z">>
Lower == <<"a","b","c","d","e","f","g","h","i","j","k","l","m",
           "n","o","p","q","r","s","t","u","v","w","x","y","z">>
LowerChar(c) ==
    IF \E i \in 1..26 : Upper[i] = c
      THEN Lower[CHOOSE i \in 1..26 : Upper[i] = c]
      ELSE c
\* strings.ToLower
ToLower(s) == [i \in 1..Len(s) |-> LowerChar(s[i])]
\* strings.Contains
Contains(s, sub) ==
    \E i \in 0..(Len(s) - Len(sub)) : SubSeq(s, i + 1, i + Len(sub)) = sub

FlagChars == {"#", "0", "+", "-", " "}
Digits == {"0", "1", "2", "3", "4", "5", "6", "7", "8", "9"}
RECURSIVE SkipWhile(_, _)
SkipWhile(s, set) ==
    IF s # <<>> /\ Head(s) \in set THEN SkipWhile(Tail(s), set) ELSE s
\* After a '%': flags, width and precision are skipped, then the verb.
AfterSpec(s) ==
    LET w == SkipWhile(SkipWhile(s, FlagChars), Digits)
    IN IF w # <<>> /\ Head(w) = "." THEN SkipWhile(Tail(w), Digits) ELSE w
\* fmt.Sprintf(format) with no operands: text is copied, "%%" gives "%", a
\* verb without operand gives "%!v(MISSING)", a trailing '%' "%!(NOVERB)".
RECURSIVE Sprintf(_)
Sprintf(f) ==
    IF f = <<>> THEN <<>>
    ELSE IF Head(f) # "%" THEN <<Head(f)>> \o Sprintf(Tail(f))
    ELSE LET r == AfterSpec(Tail(f))
         IN IF r = <<>> THEN <<"%","!","(","N","O","V","E","R","B",")">>
            ELSE IF Head(r) = "%" THEN <<"%">> \o Sprintf(Tail(r))
            ELSE <<"%","!",Head(r),"(","M","I","S","S","I","N","G",")">>
                   \o Sprintf(Tail(r))
\* fmt.Errorf(format) with no operands
Errorf(format) == ErrorsNew(Sprintf(format))

\* err.Error(): the message of the message-carrying errors; the adapter's
\* errors print a fixed text that names no schema.
ErrorText(err) ==
    IF "Message" \in DOMAIN err THEN err.Message
    ELSE IF err = Canceled
      THEN <<"c","o","n","t","e","x","t"," ","c","a","n","c","e","l","e","d">>
    ELSE <<"c","o","d","e","x"," ","e","x","e","c">>

\* ------------------------------------------------- structured output helpers
\* Texts an agent message can carry, and json.Unmarshal of each into T
\* (a struct with one string field, headline).
TextHello == "Hello"
TextDraft == "{\"headline\":\"Draft\"}"
TextFinal == "{\"headline\":\"Final\"}"
TextPartial == "{\"headline\":\"Fi"
Unmarshal(text) ==
    CASE text = TextDraft -> [err |-> Nil, value |-> [Headline |-> "Draft"]]
      [] text = TextFinal -> [err |-> Nil, value |-> [Headline |-> "Final"]]
      [] OTHER -> [err |-> [kind |-> "json.SyntaxError", text |-> text]]

\* RunJSONOptions: Schema set, TurnOptions.OutputSchema set,
\* DisableSchemaInference set.
JSONOptions ==
    { [Schema |-> TRUE, TurnSchema |-> FALSE, DisableSchemaInference |-> FALSE],
      [Schema |-> FALSE, TurnSchema |-> FALSE, DisableSchemaInference |-> FALSE],
      [Schema |-> FALSE, TurnSchema |-> FALSE, DisableSchemaInference |-> TRUE] }

prepareRunJSONOptions(o) ==
    IF o.Schema \/ o.TurnSchema \/ ~o.DisableSchemaInference
      THEN [err |-> Nil,
            turnOptions |-> [OutputSchema |-> TRUE, Callbacks |-> FALSE],
            expectSchemaError |-> TRUE]
      ELSE [err |-> ErrorsNew(<<"R","u","n","J","S","O","N"," ","r","e","q","u","i",
                                "r","e","s"," ","a"," ","s","c","h","e","m","a">>),
            turnOptions |-> UnusedOpts,
            expectSchemaError |-> FALSE]

\* classifyStructuredOutputError: the schema-violation error, or NotSchema
\* when the error is to be passed on unchanged.
NotSchema == [kind |-> "not a schema violation"]
classifyStructuredOutputError(err, expectSchema) ==
    IF err = Nil \/ ~expectSchema THEN NotSchema
    ELSE IF AsThreadStreamError(err) THEN NotSchema
    ELSE LET message == ErrorText(err)
             lower == ToLower(message)
         IN IF message = <<>> THEN SchemaViolationError(<<>>)
            ELSE IF \/ Contains(lower, sSchema)
                    \/ Contains(lower, sStructured)
                    \/ Contains(lower, sValidation)
              THEN SchemaViolationError(message)
            ELSE NotSchema

\* decodeStructuredMessage
decodeStructuredMessage(msg, final) ==
    LET r == Unmarshal(msg.Text)
    IN IF r.err # Nil
         THEN [err |-> IF final THEN Wrap("decode structured output", r.err)
                                ELSE r.err]
         ELSE [err |-> Nil,
               update |-> [Value |-> r.value, Raw |-> msg.Text, Final |-> final]]

\* sharedError.set: first write wins, nil is ignored.
sharedErrorSet(old, err) == IF err = Nil THEN old ELSE IF old = Nil THEN err ELSE old

\* ------------------------------------------------- single-shot run: Thread.run
EmptyTurn == [Items |-> <<>>, FinalResponse |-> "", Usage |-> NoUsage]
Returning(turn, err) == [returned |-> FALSE, turn |-> turn, err |-> err]

\* Mutant: the final response is taken from any completed item carrying text.
runSwitchAnyText(acc, e) ==
    CASE e.Type = "item.completed" ->
           [acc EXCEPT !.items = Append(@, e.Item),
                       !.finalMessage = IF "Text" \in DOMAIN e.Item
                                          THEN e.Item.Text ELSE @]
      [] e.Type = "turn.completed" -> [acc EXCEPT !.varUsage = e.Usage]
      [] e.Type = "turn.failed" -> [acc EXCEPT !.turnFailure = e.Error]
      [] OTHER -> acc

\* The type switch of Thread.run's loop on the accumulated
\* [items, finalMessage, varUsage, turnFailure].
runSwitch(acc, e) ==
    CASE e.Type = "item.completed" ->
           [acc EXCEPT !.items = Append(@, e.Item),
                       !.finalMessage = IF e.Item.Type = "agent_message"
                                          THEN e.Item.Text ELSE @]
      [] e.Type = "turn.completed" -> [acc EXCEPT !.varUsage = e.Usage]
      [] e.Type = "turn.failed" -> [acc EXCEPT !.turnFailure = e.Error]
      [] OTHER -> acc

\* One iteration of `for event := range result.Events()`.
RunRecv ==
    /\ rpc = "loop"
    /\ Forwarded
    /\ LET acc == runSwitch([items |-> items, finalMessage |-> finalMessage,
                             varUsage |-> varUsage, turnFailure |-> turnFailure], cur)
       IN /\ items' = acc.items
          /\ finalMessage' = acc.finalMessage
          /\ varUsage' = acc.varUsage
          /\ turnFailure' = acc.turnFailure
    /\ IF cur.Type = "error"
         THEN /\ result' = Returning(EmptyTurn, ThreadStreamError(cur.Message))
              /\ rpc' = "close"
         ELSE /\ result' = result
              /\ rpc' = IF cur.Type = "turn.failed" THEN "wait" ELSE "loop"
    /\ UNCHANGED <<api, jsonOpts, vCons, vTap, vDisp, vExt>>

\* The range loop ends because the events channel is closed.
RunRangeEnds ==
    /\ rpc = "loop"
    /\ eventsClosed
    /\ rpc' = "wait"
    /\ UNCHANGED <<vProc, vProd, vCtx, vHist, vCons, api, items, finalMessage, varUsage,
                   turnFailure, result, jsonOpts, vTap, vDisp, vExt>>

\* Mutant: the error of result.Wait() is not looked at.
RunWaitIgnoresError ==
    /\ rpc = "wait"
    /\ done
    /\ result' = IF turnFailure # NoFailure
                   THEN Returning(EmptyTurn, Errorf(turnFailure.Message))
                 ELSE Returning([Items |-> items, FinalResponse |-> finalMessage,
                                 Usage |-> varUsage], Nil)
    /\ rpc' = "close"
    /\ UNCHANGED <<vProc, vProd, vCtx, vHist, vCons, api, items, finalMessage, varUsage,
                   turnFailure, jsonOpts, vTap, vDisp, vExt>>

\* result.Wait() and the return statement that follows it.
RunWait ==
    /\ rpc = "wait"
    /\ done
    /\ result' = IF streamErr # Nil THEN Returning(EmptyTurn, streamErr)
                 ELSE IF turnFailure # NoFailure
                   THEN Returning(EmptyTurn, Errorf(turnFailure.Message))
                 ELSE Returning([Items |-> items, FinalResponse |-> finalMessage,
                                 Usage |-> varUsage], Nil)
    /\ rpc' = "close"
    /\ UNCHANGED <<vProc, vProd, vCtx, vHist, vCons, api, items, finalMessage, varUsage,
                   turnFailure, jsonOpts, vTap, vDisp, vExt>>

\* deferred result.Close(): cancel the context ...
RunClose ==
    /\ rpc = "close"
    /\ ctxDone' = TRUE
    /\ cancelRunning' = IF ctxDone THEN cancelRunning ELSE (proc = "running")
    /\ cancelBy' = IF ctxDone THEN cancelBy ELSE "Close"
    /\ rpc' = "closewait"
    /\ UNCHANGED <<vProc, vProd, vHist, vCons, api, items, finalMessage, varUsage,
                   turnFailure, result, jsonOpts, vTap, vDisp, vExt>>

\* What RunJSON makes of the outcome of thread.run.
RunJSONResult(r, expectSchema) ==
    IF r.err # Nil
      THEN LET c == classifyStructuredOutputError(r.err, expectSchema)
           IN [returned |-> TRUE, err |-> IF c # NotSchema THEN c ELSE r.err]
      ELSE LET u == Unmarshal(r.turn.FinalResponse)
           IN IF u.err # Nil
                THEN [returned |-> TRUE, err |-> Wrap("decode structured output", u.err)]
                ELSE [returned |-> TRUE, err |-> Nil, value |-> u.value]

\* ... then wait for the stream; Run returns (RunJSON goes on to classify
\* the error or decode the final response).
RunReturn ==
    /\ rpc = "closewait"
    /\ done
    /\ result' = IF api = "RunJSON"
                   THEN RunJSONResult(result, jsonOpts.expectSchemaError)
                   ELSE [result EXCEPT !.returned = TRUE]
    /\ rpc' = "done"
    /\ UNCHANGED <<vProc, vProd, vCtx, vHist, vCons, api, items, finalMessage, varUsage,
                   turnFailure, jsonOpts, vTap, vDisp, vExt>>

\* RunJSON up to the start of the run: resolve the schema or fail.
RunJSONPrepare ==
    /\ rpc = "prepare"
    /\ LET cfg == prepareRunJSONOptions(jsonOpts)
       IN IF cfg.err # Nil
            THEN /\ result' = [returned |-> TRUE, err |-> cfg.err]
                 /\ rpc' = "done"
                 /\ UNCHANGED <<turnOpts, schemaFile, ppc, jsonOpts>>
            ELSE /\ turnOpts' = cfg.turnOptions
                 /\ jsonOpts' = [expectSchemaError |-> cfg.expectSchemaError]
                 /\ schemaFile' = cfg.turnOptions.OutputSchema
                 /\ ppc' = "scan"
                 /\ rpc' = "loop"
                 /\ UNCHANGED result
    /\ UNCHANGED <<vProc, cur, readErr, runRet, threadErr, eventsClosed, streamErr, done,
                   threadID, vCtx, vHist, vCons, api, items, finalMessage, varUsage,
                   turnFailure, vTap, vDisp, vExt>>

ThreadRun == RunRecv \/ RunRangeEnds \/ RunWait \/ RunClose \/ RunReturn

RunAlphabet ==
    { LThreadStarted("A"),
      LItem("item.completed", WAgentMessage("m1", TextHello)),
      LItem("item.completed", WAgentMessage("m2", TextFinal)),
      LItem("item.completed", WReasoning("r1", "thinking")),
      LTurnCompleted(Usage1), LTurnCompleted(Usage2),
      LTurnFailed(sBoom), LTurnFailed(sRatePct), LError(sBoom), LUnknown }

RunOptions == { [OutputSchema |-> FALSE, Callbacks |-> FALSE] }

InitRun ==
    /\ InitProducer(SeqsUpTo(RunAlphabet, MaxRunLen), RunOptions, "scan")
    /\ IdleConsumer /\ IdleTap /\ IdleDispatch /\ IdleExt
    /\ api = "Run"
    /\ rpc = "loop"
    /\ items = <<>>
    /\ finalMessage = ""
    /\ varUsage = NoUsage
    /\ turnFailure = NoFailure
    /\ result = NoResult
    /\ jsonOpts = NoOptions

NextRun == Producer \/ Cancel \/ ThreadRun

SpecRun == InitRun /\ [][NextRun]_vars

FailureMessages ==
    { sEmpty, sBoom, sSchema, sBadSchema, sValidation, sStructured,
      sPctSchema, sSchemaPct, sRatePct }

RunJSONAlphabet ==
    { LItem("item.completed", WAgentMessage("m1", TextFinal)),
      LItem("item.completed", WAgentMessage("m2", TextHello)),
      LTurnCompleted(Usage1) }
    \cup { LTurnFailed(m) : m \in FailureMessages }

InitRunJSON ==
    /\ InitProducer(SeqsUpTo(RunJSONAlphabet, MaxJSONLen), {UnusedOpts}, "idle")
    /\ IdleConsumer /\ IdleTap /\ IdleDispatch /\ IdleExt
    /\ api = "RunJSON"
    /\ rpc = "prepare"
    /\ items = <<>>
    /\ finalMessage = ""
    /\ varUsage = NoUsage
    /\ turnFailure = NoFailure
    /\ result = NoResult
    /\ jsonOpts \in JSONOptions

\* --------------------------------- structured output run: RunStreamedJSON
\* RunStreamedJSON up to the start of the run and of the tap goroutine.
TapPrepare ==
    /\ tpc = "prepare"
    /\ LET cfg == prepareRunJSONOptions(jsonOpts)
       IN IF cfg.err # Nil
            THEN /\ result' = [returned |-> TRUE, err |-> cfg.err]
                 /\ tpc' = "failed"
                 /\ UNCHANGED <<turnOpts, schemaFile, ppc, jsonOpts>>
            ELSE /\ turnOpts' = cfg.turnOptions
                 /\ jsonOpts' = [expectSchemaError |-> cfg.expectSchemaError]
                 /\ schemaFile' = cfg.turnOptions.OutputSchema
                 /\ ppc' = "scan"
                 /\ tpc' = "recv"
                 /\ UNCHANGED result
    /\ UNCHANGED <<vProc, cur, readErr, runRet, threadErr, eventsClosed, streamErr, done,
                   threadID, vCtx, vHist, vCons, api, rpc, items, finalMessage, varUsage,
                   turnFailure, tev, deliveredFinal, turnCompleted, shErr,
                   evBuf, upBuf, evClosed, upClosed, gotEvents, gotUpdates, vDisp, vExt>>

\* `for event := range raw.Events()`: the tap takes the next event.
TapRecv ==
    /\ tpc = "recv"
    /\ Forwarded
    /\ tev' = cur
    /\ tpc' = "switch"
    /\ UNCHANGED <<vCons, vRun, deliveredFinal, turnCompleted, shErr, evBuf, upBuf,
                   evClosed, upClosed, gotEvents, gotUpdates, vDisp, vExt>>

IsMessage(e) == e.Type \in ItemEventTypes /\ e.Item.Type = "agent_message"
TurnFailureError(e, expectSchema) ==
    LET rawErr == ErrorsNew(e.Error.Message)
        c == classifyStructuredOutputError(rawErr, expectSchema)
    IN IF c # NotSchema THEN c ELSE rawErr

\* Mutant: a decode failure is recorded for intermediate messages too.
TapSwitchStrict ==
    /\ tpc = "switch"
    /\ LET final == (tev.Type = "item.completed")
           isMsg == IsMessage(tev) /\ tev.Type \in {"item.updated", "item.completed"}
           d == IF isMsg THEN decodeStructuredMessage(tev.Item, final) ELSE [err |-> Nil]
       IN /\ shErr' = IF isMsg /\ d.err # Nil THEN sharedErrorSet(shErr, d.err)
                      ELSE IF tev.Type = "turn.failed"
                        THEN sharedErrorSet(shErr, TurnFailureError(tev,
                               jsonOpts.expectSchemaError))
                      ELSE shErr
          /\ deliveredFinal' = IF isMsg /\ final /\ d.err = Nil THEN TRUE ELSE deliveredFinal
          /\ turnCompleted' = IF tev.Type = "turn.completed" THEN TRUE ELSE turnCompleted
          /\ tpc' = IF isMsg /\ d.err = Nil THEN "sendUpdate" ELSE "sendEvent"
    /\ UNCHANGED <<vProc, vProd, vCtx, vHist, vCons, vRun, tev, evBuf, upBuf, evClosed,
                   upClosed, gotEvents, gotUpdates, vDisp, vExt>>

\* The type switch of the tap, up to the select that delivers a snapshot.
TapSwitch ==
    /\ tpc = "switch"
    /\ LET final == (tev.Type = "item.completed")
           isMsg == IsMessage(tev) /\ tev.Type \in {"item.updated", "item.completed"}
           d == IF isMsg THEN decodeStructuredMessage(tev.Item, final) ELSE [err |-> Nil]
       IN /\ shErr' = IF isMsg /\ final /\ d.err # Nil THEN sharedErrorSet(shErr, d.err)
                      ELSE IF tev.Type = "turn.failed"
                        THEN sharedErrorSet(shErr, TurnFailureError(tev,
                               jsonOpts.expectSchemaError))
                      ELSE shErr
          /\ deliveredFinal' = IF isMsg /\ final /\ d.err = Nil THEN TRUE ELSE deliveredFinal
          /\ turnCompleted' = IF tev.Type = "turn.completed" THEN TRUE ELSE turnCompleted
          /\ tpc' = IF isMsg /\ d.err = Nil THEN "sendUpdate" ELSE "sendEvent"
    /\ UNCHANGED <<vProc, vProd, vCtx, vHist, vCons, vRun, tev, evBuf, upBuf, evClosed,
                   upClosed, gotEvents, gotUpdates, vDisp, vExt>>

\* Mutant: the updates channel has no capacity limit.
TapSendUpdateUnbounded ==
    /\ tpc = "sendUpdate"
    /\ \/ /\ upBuf' = Append(upBuf,
                        decodeStructuredMessage(tev.Item, tev.Type = "item.completed").update)
          /\ tpc' = "sendEvent"
       \/ /\ done
          /\ tpc' = "exit"
          /\ UNCHANGED upBuf
    /\ UNCHANGED <<vProc, vProd, vCtx, vHist, vCons, vRun, tev, deliveredFinal,
                   turnCompleted, shErr, evBuf, evClosed, upClosed, gotEvents, gotUpdates,
                   vDisp, vExt>>

\* select { case updates <- update: ; case <-raw.stream.done: return ; default: }
TapSendUpdate ==
    /\ tpc = "sendUpdate"
    /\ \/ /\ Len(upBuf) < runStreamedJSONEventBuffer
          /\ upBuf' = Append(upBuf,
                        decodeStructuredMessage(tev.Item, tev.Type = "item.completed").update)
          /\ tpc' = "sendEvent"
       \/ /\ done
          /\ tpc' = "exit"
          /\ UNCHANGED upBuf
       \/ /\ Len(upBuf) >= runStreamedJSONEventBuffer
          /\ ~done
          /\ tpc' = "sendEvent"
          /\ UNCHANGED upBuf
    /\ UNCHANGED <<vProc, vProd, vCtx, vHist, vCons, vRun, tev, deliveredFinal,
                   turnCompleted, shErr, evBuf, evClosed, upClosed, gotEvents, gotUpdates,
                   vDisp, vExt>>

\* Mutant: the select has no default case, so a full buffer makes the tap wait.
TapSendEventBlocking ==
    /\ tpc = "sendEvent"
    /\ \/ /\ Len(evBuf) < runStreamedJSONEventBuffer
          /\ evBuf' = Append(evBuf, tev)
          /\ tpc' = "recv"
       \/ /\ done
          /\ tpc' = "exit"
          /\ UNCHANGED evBuf
    /\ tev' = IF tpc' = "recv" THEN NoEvent ELSE tev
    /\ UNCHANGED <<vProc, vProd, vCtx, vHist, vCons, vRun, deliveredFinal, turnCompleted,
                   shErr, upBuf, evClosed, upClosed, gotEvents, gotUpdates, vDisp, vExt>>

\* select { case events <- event: ; case <-raw.stream.done: return ; default: }
TapSendEvent ==
    /\ tpc = "sendEvent"
    /\ \/ /\ Len(evBuf) < runStreamedJSONEventBuffer
          /\ evBuf' = Append(evBuf, tev)
          /\ tpc' = "recv"
       \/ /\ done
          /\ tpc' = "exit"
          /\ UNCHANGED evBuf
       \/ /\ Len(evBuf) >= runStreamedJSONEventBuffer
          /\ ~done
          /\ tpc' = "recv"
          /\ UNCHANGED evBuf
    /\ tev' = IF tpc' = "recv" THEN NoEvent ELSE tev
    /\ UNCHANGED <<vProc, vProd, vCtx, vHist, vCons, vRun, deliveredFinal, turnCompleted,
                   shErr, upBuf, evClosed, upClosed, gotEvents, gotUpdates, vDisp, vExt>>

\* The range loop ends; a completed turn without final snapshot is an error.
TapRangeEnds ==
    /\ tpc = "recv"
    /\ eventsClosed
    /\ shErr' = IF turnCompleted /\ ~deliveredFinal
                  THEN sharedErrorSet(shErr, ErrNoStructuredOutput) ELSE shErr
    /\ tpc' = "exit"
    /\ UNCHANGED <<vProc, vProd, vCtx, vHist, vCons, vRun, tev, deliveredFinal,
                   turnCompleted, evBuf, upBuf, evClosed, upClosed, gotEvents, gotUpdates,
                   vDisp, vExt>>

\* deferred close(updates) and close(events)
TapExit ==
    /\ tpc = "exit"
    /\ upClosed' = TRUE
    /\ evClosed' = TRUE
    /\ tpc' = "done"
    /\ UNCHANGED <<vProc, vProd, vCtx, vHist, vCons, vRun, tev, deliveredFinal,
                   turnCompleted, shErr, evBuf, upBuf, gotEvents, gotUpdates, vDisp, vExt>>

\* The caller reads Events() of the structured run.
ReadEvent ==
    /\ cpc = "reading"
    /\ evBuf # <<>>
    /\ gotEvents' = Append(gotEvents, Head(evBuf))
    /\ evBuf' = Tail(evBuf)
    /\ UNCHANGED <<vProc, vProd, vCtx, vHist, vCons, vRun, tpc, tev, deliveredFinal,
                   turnCompleted, shErr, upBuf, evClosed, upClosed, gotUpdates, vDisp, vExt>>

\* The caller reads Updates().
ReadUpdate ==
    /\ cpc = "reading"
    /\ upBuf # <<>>
    /\ gotUpdates' = Append(gotUpdates, Head(upBuf))
    /\ upBuf' = Tail(upBuf)
    /\ UNCHANGED <<vProc, vProd, vCtx, vHist, vCons, vRun, tpc, tev, deliveredFinal,
                   turnCompleted, shErr, evBuf, evClosed, upClosed, gotEvents, vDisp, vExt>>

\* RunStreamedJSONResult.Wait: the stream's error, else the extractor's.
JSONWait ==
    /\ tpc \notin {"idle", "prepare", "failed"}
    /\ waitResult = Pending
    /\ done
    /\ waitResult' = IF streamErr # Nil THEN streamErr ELSE shErr
    /\ waitDrained' = (evClosed /\ upClosed /\ evBuf = <<>> /\ upBuf = <<>>)
    /\ UNCHANGED <<vProc, vProd, vCtx, vHist, cpc, vRun, vTap, vDisp, vExt>>

Tap ==
    \/ TapPrepare \/ TapRecv \/ TapSwitch \/ TapSendUpdate \/ TapSendEvent
    \/ TapRangeEnds \/ TapExit \/ ReadEvent \/ ReadUpdate \/ JSONWait

TapAlphabet ==
    { LItem("item.updated", WAgentMessage("m1", TextDraft)),
      LItem("item.updated", WAgentMessage("m1", TextPartial)),
      LItem("item.completed", WAgentMessage("m1", TextFinal)),
      LItem("item.completed", WAgentMessage("m1", TextHello)),
      LTurnCompleted(Usage1), LTurnFailed(sSchema), LTurnFailed(sBoom) }

\* More snapshots than the buffered channels hold.
BurstOutput ==
    [i \in 1..(runStreamedJSONEventBuffer + 1) |->
       LItem("item.updated", WAgentMessage("m1", TextDraft))]

InitTap(lines, reader) ==
    /\ InitProducer(lines, {UnusedOpts}, "idle")
    /\ IdleDispatch /\ IdleExt
    /\ cpc = reader
    /\ waitResult = Pending
    /\ waitDrained = FALSE
    /\ api = "RunStreamedJSON"
    /\ rpc = "idle"
    /\ items = <<>>
    /\ finalMessage = ""
    /\ varUsage = NoUsage
    /\ turnFailure = NoFailure
    /\ result = NoResult
    /\ jsonOpts \in JSONOptions
    /\ tpc = "prepare"
    /\ tev = NoEvent
    /\ deliveredFinal = FALSE
    /\ turnCompleted = FALSE
    /\ shErr = Nil
    /\ evBuf = <<>>
    /\ upBuf = <<>>
    /\ evClosed = FALSE
    /\ upClosed = FALSE
    /\ gotEvents = <<>>
    /\ gotUpdates = <<>>

\* Short outputs with a caller that reads both channels when it pleases, and
\* the burst with a caller that reads neither.
InitStreamJSON ==
    \/ InitTap(SeqsUpTo(TapAlphabet, MaxTapLen), "reading")
    \/ InitTap({BurstOutput}, "stalled")

NextStreamJSON == Producer \/ Cancel \/ Tap

SpecStreamJSON == InitStreamJSON /\ [][NextStreamJSON]_vars

\* ------------------------- RunJSON, then RunStreamedJSON on the same output
\* The RunJSONOptions that prepareRunJSONOptions turns into the given config.
OptionsOf(config) ==
    IF "Schema" \in DOMAIN config THEN {config}
    ELSE {o \in JSONOptions :
            /\ prepareRunJSONOptions(o).err = Nil
            /\ prepareRunJSONOptions(o).expectSchemaError = config.expectSchemaError}

\* After RunJSON has returned and its producer has finished, the caller
\* calls RunStreamedJSON with the same options over a subprocess that
\* writes the same output and exits with the same code, and reads both
\* channels.  What RunJSON returned stays in result.
CallRunStreamedJSON ==
    /\ api = "RunJSON"
    /\ rpc = "done" /\ result.returned
    /\ ppc \in {"idle", "done"}
    /\ api' = "RunStreamedJSON"
    /\ rpc' = "idle"
    /\ jsonOpts' \in OptionsOf(jsonOpts)
    /\ items' = <<>> /\ finalMessage' = "" /\ varUsage' = NoUsage
    /\ turnFailure' = NoFailure
    /\ stdout' = output
    /\ proc' = "running"
    /\ turnOpts' = UnusedOpts /\ schemaFile' = FALSE
    /\ ppc' = "idle"
    /\ cur' = NoEvent
    /\ readErr' = Nil /\ runRet' = Nil /\ threadErr' = Nil /\ streamErr' = Nil
    /\ eventsClosed' = FALSE /\ done' = FALSE
    /\ ctxDone' = FALSE /\ cancelRunning' = FALSE /\ cancelBy' = "none"
    /\ decoded' = <<>> /\ received' = <<>>
    /\ cpc' = "reading" /\ waitResult' = Pending /\ waitDrained' = FALSE
    /\ tpc' = "prepare"
    /\ UNCHANGED <<output, exitCode, stderrBuf, threadID, callbackLog, result, tev,
                   deliveredFinal, turnCompleted, shErr, evBuf, upBuf, evClosed, upClosed,
                   gotEvents, gotUpdates, vDisp, vExt>>

AgreeAlphabet ==
    { LItem("item.completed", WAgentMessage("m1", TextFinal)),
      LItem("item.completed", WAgentMessage("m2", TextHello)),
      LTurnCompleted(Usage1), LTurnFailed(sBoom), LError(sBoom) }

InitAgree ==
    /\ InitProducer(SeqsUpTo(AgreeAlphabet, MaxAgreeLen), {UnusedOpts}, "idle")
    /\ IdleConsumer /\ IdleTap /\ IdleDispatch /\ IdleExt
    /\ api = "RunJSON"
    /\ rpc = "prepare"
    /\ items = <<>>
    /\ finalMessage = ""
    /\ varUsage = NoUsage
    /\ turnFailure = NoFailure
    /\ result = NoResult
    /\ jsonOpts \in JSONOptions

NextAgree == Producer \/ ThreadRun \/ RunJSONPrepare \/ CallRunStreamedJSON \/ Tap

SpecAgree == InitAgree /\ [][NextAgree]_vars

\* The steps of the tap goroutine (the caller's reads and Wait left out).
TapGoroutine ==
    \/ TapPrepare \/ TapRecv \/ TapSwitch \/ TapSendUpdate \/ TapSendEvent
    \/ TapRangeEnds \/ TapExit

\* Output after which a blocking send would leave the tap and the producer
\* both waiting: one snapshot more than the buffer holds, and one more event.
StallOutput ==
    [i \in 1..(runStreamedJSONEventBuffer + 2) |->
       LItem("item.updated", WAgentMessage("m1", TextDraft))]

InitStall ==
    \/ InitTap(SeqsUpTo(TapAlphabet, MaxStallLen), "reading")
    \/ InitTap({StallOutput}, "stalled")

\* Fair scheduling of the producer and tap goroutines and of a caller blocked
\* in Wait; nothing is assumed of the caller's reading of either channel.
FairStreamJSON ==
    /\ InitStall /\ [][NextStreamJSON]_vars
    /\ WF_vars(Producer) /\ WF_vars(TapGoroutine) /\ WF_vars(JSONWait)


\* RunJSON and RunStreamedJSON side by side.
NextRunJSON == Producer \/ Cancel \/ ThreadRun \/ RunJSONPrepare

SpecJSON == (InitRunJSON \/ InitStreamJSON) /\ [][NextRunJSON \/ NextStreamJSON]_vars

\* ------------------------------------------- callback dispatcher: handle
AllCallbacks ==
    {"OnEvent", "OnThreadStarted", "OnTurnStarted", "OnTurnCompleted", "OnTurnFailed",
     "OnThreadError", "OnMessage", "OnReasoning", "OnCommand", "OnPatch",
     "OnFileChange", "OnWebSearch", "OnToolCall", "OnTodoList", "OnErrorItem"}
NilItem == [Type |-> "nil"]
Call(cb, arg) == [cb |-> cb, arg |-> arg]
Hook(c, cb, arg) == IF cb \in c.set THEN <<Call(cb, arg)>> ELSE <<>>

\* Mutant: the per-file callbacks are issued from the last change to the first.
handleItemReversed(c, stage, item) ==
    IF c.nil \/ item = NilItem THEN <<>>
    ELSE CASE item.Type = "agent_message" ->
                Hook(c, "OnMessage", [Stage |-> stage, Message |-> item])
           [] item.Type = "reasoning" ->
                Hook(c, "OnReasoning", [Stage |-> stage, Reasoning |-> item])
           [] item.Type = "command_execution" ->
                Hook(c, "OnCommand", [Stage |-> stage, Command |-> item])
           [] item.Type = "file_change" ->
                Hook(c, "OnPatch", [Stage |-> stage, Patch |-> item])
                \o (IF "OnFileChange" \in c.set
                      THEN [i \in 1..Len(item.Changes) |->
                              Call("OnFileChange",
                                   [Stage |-> stage, Patch |-> item,
                                    Change |-> item.Changes[Len(item.Changes) + 1 - i]])]
                      ELSE <<>>)
           [] item.Type = "mcp_tool_call" ->
                Hook(c, "OnToolCall", [Stage |-> stage, ToolCall |-> item])
           [] item.Type = "web_search" ->
                Hook(c, "OnWebSearch", [Stage |-> stage, Search |-> item])
           [] item.Type = "todo_list" ->
                Hook(c, "OnTodoList", [Stage |-> stage, List |-> item])
           [] item.Type = "error" ->
                Hook(c, "OnErrorItem", [Stage |-> stage, Error |-> item])
           [] OTHER -> <<>>

\* StreamCallbacks.handleItem: the callback invocations it makes, in order.
handleItem(c, stage, item) ==
    IF c.nil \/ item = NilItem THEN <<>>
    ELSE CASE item.Type = "agent_message" ->
                Hook(c, "OnMessage", [Stage |-> stage, Message |-> item])
           [] item.Type = "reasoning" ->
                Hook(c, "OnReasoning", [Stage |-> stage, Reasoning |-> item])
           [] item.Type = "command_execution" ->
                Hook(c, "OnCommand", [Stage |-> stage, Command |-> item])
           [] item.Type = "file_change" ->
                Hook(c, "OnPatch", [Stage |-> stage, Patch |-> item])
                \o (IF "OnFileChange" \in c.set
                      THEN [i \in 1..Len(item.Changes) |->
                              Call("OnFileChange",
                                   [Stage |-> stage, Patch |-> item,
                                    Change |-> item.Changes[i]])]
                      ELSE <<>>)
           [] item.Type = "mcp_tool_call" ->
                Hook(c, "OnToolCall", [Stage |-> stage, ToolCall |-> item])
           [] item.Type = "web_search" ->
                Hook(c, "OnWebSearch", [Stage |-> stage, Search |-> item])
           [] item.Type = "todo_list" ->
                Hook(c, "OnTodoList", [Stage |-> stage, List |-> item])
           [] item.Type = "error" ->
                Hook(c, "OnErrorItem", [Stage |-> stage, Error |-> item])
           [] OTHER -> <<>>

handleTyped(c, event) ==
    CASE event.Type = "thread.started" -> Hook(c, "OnThreadStarted", event)
      [] event.Type = "turn.started" -> Hook(c, "OnTurnStarted", event)
      [] event.Type = "turn.completed" -> Hook(c, "OnTurnCompleted", event)
      [] event.Type = "turn.failed" -> Hook(c, "OnTurnFailed", event)
      [] event.Type = "error" -> Hook(c, "OnThreadError", event)
      [] event.Type = "item.started" -> handleItem(c, "started", event.Item)
      [] event.Type = "item.updated" -> handleItem(c, "updated", event.Item)
      [] event.Type = "item.completed" -> handleItem(c, "completed", event.Item)
      [] OTHER -> <<>>

\* Mutant: the catch-all hook runs after the typed one.
handleTypedFirst(c, event) ==
    IF c.nil THEN <<>>
    ELSE handleTyped(c, event) \o Hook(c, "OnEvent", event)

\* StreamCallbacks.handle: the callback invocations it makes, in order.
handle(c, event) ==
    IF c.nil THEN <<>>
    ELSE Hook(c, "OnEvent", event) \o handleTyped(c, event)

ChangeLists ==
    SeqsUpTo({[path |-> "main.go", kind |-> "update"],
              [path |-> "README.md", kind |-> "add"]}, MaxChanges)
DispatchItems ==
    { ItemOf(w) : w \in { WAgentMessage("m1", TextHello), WReasoning("r1", "thinking"),
                          WCommand("c1"), WToolCall("t1"), WWebSearch("s1"),
                          WTodoList("l1"), WErrorItem("e1") }
                        \cup { WFileChange("p1", ch) : ch \in ChangeLists } }
    \cup {NilItem}
DispatchEvents ==
    { EventOf(l) : l \in { LThreadStarted("A"), LTurnStarted, LTurnCompleted(Usage1),
                           LTurnFailed(sBoom), LError(sBoom) } }
    \cup { [Type |-> t, Item |-> it] : t \in ItemEventTypes, it \in DispatchItems }
RegisteredSets ==
    { [nil |-> FALSE, set |-> S] : S \in
        { S \in SUBSET AllCallbacks :
            \/ Cardinality(S) <= MaxRegistered
            \/ Cardinality(S) >= Cardinality(AllCallbacks) - 1 } }
    \cup {NilCallbacks}

\* An event is handed to the dispatcher.
Dispatch ==
    /\ ppc = "idle"
    /\ dEvent = NoEvent
    /\ \E e \in DispatchEvents :
         /\ dEvent' = e
         /\ dLog' = handle(dCallbacks, e)
    /\ UNCHANGED <<dCallbacks, vProc, vProd, vCtx, vHist, vCons, vRun, vTap, vExt>>

InitDispatch ==
    /\ IdleProducer /\ IdleConsumer /\ IdleRun /\ IdleTap /\ IdleExt
    /\ dEvent = NoEvent
    /\ dCallbacks \in RegisteredSets
    /\ dLog = <<>>

SpecDispatch == InitDispatch /\ [][Dispatch]_vars

\* ------------------------------------------- sequential runs of one Thread
ReuseAlphabet == { LThreadStarted("A"), LThreadStarted("B"), LTurnCompleted(Usage1) }

\* Mutant: every run is started as a run of a new thread.
StartRunFresh ==
    /\ ppc = "done" /\ cpc = "closed" /\ waitResult # Pending
    /\ Len(runLog) < MaxRuns
    /\ runLog' = Append([runLog EXCEPT ![Len(runLog)].decoded = decoded],
                        [ThreadID |-> "", decoded |-> <<>>])
    /\ output' \in SeqsUpTo(ReuseAlphabet, MaxReuseLen)
    /\ stdout' = output'
    /\ exitCode' \in {0, 1}
    /\ stderrBuf' = stderrBuf
    /\ proc' = "running"
    /\ ppc' = "scan"
    /\ cur' = NoEvent
    /\ readErr' = Nil /\ runRet' = Nil /\ threadErr' = Nil /\ streamErr' = Nil
    /\ eventsClosed' = FALSE /\ done' = FALSE
    /\ ctxDone' = FALSE /\ cancelRunning' = FALSE /\ cancelBy' = "none"
    /\ decoded' = <<>> /\ received' = <<>>
    /\ cpc' = "recv" /\ waitResult' = Pending /\ waitDrained' = FALSE
    /\ UNCHANGED <<turnOpts, threadID, schemaFile, callbackLog, vRun, vTap, vDisp,
                   xLine, xpc, xFirst, xJSON, xSecond, vAux>>

\* The caller, done with a run, starts the next one on the same Thread:
\* runStreamed reads t.ID() and hands it to the adapter as Args.ThreadID.
StartRun ==
    /\ ppc = "done" /\ cpc = "closed" /\ waitResult # Pending
    /\ Len(runLog) < MaxRuns
    /\ runLog' = Append([runLog EXCEPT ![Len(runLog)].decoded = decoded],
                        [ThreadID |-> threadID, decoded |-> <<>>])
    /\ output' \in SeqsUpTo(ReuseAlphabet, MaxReuseLen)
    /\ stdout' = output'
    /\ exitCode' \in {0, 1}
    /\ stderrBuf' = stderrBuf
    /\ proc' = "running"
    /\ ppc' = "scan"
    /\ cur' = NoEvent
    /\ readErr' = Nil /\ runRet' = Nil /\ threadErr' = Nil /\ streamErr' = Nil
    /\ eventsClosed' = FALSE /\ done' = FALSE
    /\ ctxDone' = FALSE /\ cancelRunning' = FALSE /\ cancelBy' = "none"
    /\ decoded' = <<>> /\ received' = <<>>
    /\ cpc' = "recv" /\ waitResult' = Pending /\ waitDrained' = FALSE
    /\ UNCHANGED <<turnOpts, threadID, schemaFile, callbackLog, vRun, vTap, vDisp,
                   xLine, xpc, xFirst, xJSON, xSecond, vAux>>

InitReuse ==
    /\ InitProducer(SeqsUpTo(ReuseAlphabet, MaxReuseLen), {UnusedOpts}, "scan")
    /\ cpc = "recv"
    /\ waitResult = Pending
    /\ waitDrained = FALSE
    /\ IdleRun /\ IdleTap /\ IdleDispatch /\ IdleDecode /\ IdleAux
    /\ runLog = <<[ThreadID |-> threadID, decoded |-> <<>>]>>

NextReuse ==
    \/ Producer \/ Cancel
    \/ ConsumerRecv \/ ConsumerClosed \/ ConsumerWait
    \/ StartRun

SpecReuse == InitReuse /\ [][NextReuse]_vars

\* ------------------------------------------------- decoder, line by line
\* json.Marshal of an item, by the json tags of its struct: every member is
\* written, exit_code only when the pointer is set.  (A nil slice and an
\* empty one are not told apart here.)
MarshalChange(c) == [path |-> c.Path, kind |-> c.Kind]
MarshalTodo(t) == [text |-> t.Text, completed |-> t.Completed]
\* Mutant: exit_code is an int with omitempty, so a zero exit code is left out.
MarshalItemOmitZero(it) ==
    CASE it.Type \in {"agent_message", "reasoning"} ->
           [id |-> it.ID, type |-> it.Type, text |-> it.Text]
      [] it.Type = "command_execution" ->
           IF it.ExitCode.nil \/ it.ExitCode.v = 0
             THEN [id |-> it.ID, type |-> it.Type, command |-> it.Command,
                   aggregated_output |-> it.AggregatedOutput, status |-> it.Status]
             ELSE [id |-> it.ID, type |-> it.Type, command |-> it.Command,
                   aggregated_output |-> it.AggregatedOutput,
                   exit_code |-> it.ExitCode.v, status |-> it.Status]
      [] it.Type = "file_change" ->
           [id |-> it.ID, type |-> it.Type,
            changes |-> [i \in 1..Len(it.Changes) |-> MarshalChange(it.Changes[i])],
            status |-> it.Status]
      [] it.Type = "mcp_tool_call" ->
           [id |-> it.ID, type |-> it.Type, server |-> it.Server, tool |-> it.Tool,
            status |-> it.Status]
      [] it.Type = "web_search" ->
           [id |-> it.ID, type |-> it.Type, query |-> it.Query]
      [] it.Type = "todo_list" ->
           [id |-> it.ID, type |-> it.Type,
            items |-> [i \in 1..Len(it.Items) |-> MarshalTodo(it.Items[i])]]
      [] it.Type = "error" ->
           [id |-> it.ID, type |-> it.Type, message |-> it.Message]

MarshalItem(it) ==
    CASE it.Type \in {"agent_message", "reasoning"} ->
           [id |-> it.ID, type |-> it.Type, text |-> it.Text]
      [] it.Type = "command_execution" ->
           IF it.ExitCode.nil
             THEN [id |-> it.ID, type |-> it.Type, command |-> it.Command,
                   aggregated_output |-> it.AggregatedOutput, status |-> it.Status]
             ELSE [id |-> it.ID, type |-> it.Type, command |-> it.Command,
                   aggregated_output |-> it.AggregatedOutput,
                   exit_code |-> it.ExitCode.v, status |-> it.Status]
      [] it.Type = "file_change" ->
           [id |-> it.ID, type |-> it.Type,
            changes |-> [i \in 1..Len(it.Changes) |-> MarshalChange(it.Changes[i])],
            status |-> it.Status]
      [] it.Type = "mcp_tool_call" ->
           [id |-> it.ID, type |-> it.Type, server |-> it.Server, tool |-> it.Tool,
            status |-> it.Status]
      [] it.Type = "web_search" ->
           [id |-> it.ID, type |-> it.Type, query |-> it.Query]
      [] it.Type = "todo_list" ->
           [id |-> it.ID, type |-> it.Type,
            items |-> [i \in 1..Len(it.Items) |-> MarshalTodo(it.Items[i])]]
      [] it.Type = "error" ->
           [id |-> it.ID, type |-> it.Type, message |-> it.Message]

\* json.Marshal of an event.
Marshal(e) ==
    CASE e.Type = "thread.started" ->
           [json |-> TRUE, type |-> e.Type, thread_id |-> e.ThreadID]
      [] e.Type = "turn.started" -> [json |-> TRUE, type |-> e.Type]
      [] e.Type = "turn.completed" ->
           [json |-> TRUE, type |-> e.Type,
            usage |-> [input_tokens |-> e.Usage.InputTokens,
                       cached_input_tokens |-> e.Usage.CachedInputTokens,
                       output_tokens |-> e.Usage.OutputTokens]]
      [] e.Type = "turn.failed" ->
           [json |-> TRUE, type |-> e.Type, error |-> [message |-> e.Error.Message]]
      [] e.Type = "error" -> [json |-> TRUE, type |-> e.Type, message |-> e.Message]
      [] e.Type \in ItemEventTypes ->
           [json |-> TRUE, type |-> e.Type, item |-> MarshalItem(e.Item)]

\* Items as the CLI writes them, with all their members.
WireItems ==
    { WAgentMessage("m1", TextHello), WAgentMessage("m2", TextFinal),
      WReasoning("r1", "thinking"), WCommand("c1"),
      [type |-> "command_execution", id |-> "c2", command |-> "go vet",
       aggregated_output |-> "", exit_code |-> 0, status |-> "completed"],
      [type |-> "command_execution", id |-> "c3", command |-> "go build",
       aggregated_output |-> "fail", exit_code |-> 2, status |-> "failed"],
      WToolCall("t1"), WWebSearch("s1"), WTodoList("l1"),
      [type |-> "todo_list", id |-> "l2",
       items |-> <<[text |-> "write tests", completed |-> TRUE]>>],
      WErrorItem("e1") }
    \cup { WFileChange("p1", ch) : ch \in ChangeLists }

\* Items with members left out or null.
SparseItems ==
    { [type |-> "agent_message", id |-> "m3"],
      [type |-> "agent_message", id |-> "m4", nulls |-> {"text"}],
      [type |-> "command_execution", id |-> "c4", command |-> "ls",
       aggregated_output |-> "", status |-> "completed", nulls |-> {"exit_code"}],
      [type |-> "file_change", id |-> "p2", status |-> "failed"],
      [type |-> "web_search", nulls |-> {"id", "query"}] }

\* Items no variant stands for.
UnknownItems ==
    { [type |-> "unknown_item", id |-> "x"], [type |-> "", id |-> "x"],
      [type |-> "Agent_Message", id |-> "x", text |-> TextHello],
      [id |-> "x", text |-> TextHello], [id |-> "x", nulls |-> {"type"}] }

ValidLines ==
    { LThreadStarted("A"), LThreadStarted("B"), LThreadStarted(""), LTurnStarted,
      LTurnCompleted(Usage1), LTurnCompleted(Usage2),
      LTurnFailed(sBoom), LTurnFailed(sEmpty), LTurnFailed(sRatePct), LError(sBoom) }
    \cup { LItem(t, w) : t \in ItemEventTypes, w \in WireItems }

SparseLines ==
    { [json |-> TRUE, type |-> "thread.started"],
      [json |-> TRUE, type |-> "thread.started", nulls |-> {"thread_id"}],
      [json |-> TRUE, type |-> "turn.completed"],
      [json |-> TRUE, type |-> "turn.completed", nulls |-> {"usage"}],
      [json |-> TRUE, type |-> "turn.completed",
       usage |-> [input_tokens |-> 5, nulls |-> {"output_tokens"}]],
      [json |-> TRUE, type |-> "turn.failed", nulls |-> {"error"}],
      [json |-> TRUE, type |-> "turn.failed", error |-> [nulls |-> {"message"}]],
      [json |-> TRUE, type |-> "error"],
      [json |-> TRUE, type |-> "error", nulls |-> {"message"}] }
    \cup { LItem(t, w) : t \in {"item.started", "item.completed"}, w \in SparseItems }

UnknownLines ==
    { LMalformed, LUnknown, LUnknownItem, [json |-> TRUE],
      [json |-> TRUE, nulls |-> {"type"}], [json |-> TRUE, type |-> ""],
      [json |-> TRUE, type |-> "Thread.Started", thread_id |-> "A"],
      [json |-> TRUE, type |-> "item.deleted", item |-> WAgentMessage("m1", TextHello)],
      [json |-> TRUE, thread_id |-> "A"] }
    \cup { [json |-> TRUE, type |-> t] : t \in ItemEventTypes }
    \cup { [json |-> TRUE, type |-> t, nulls |-> {"item"}] : t \in ItemEventTypes }
    \cup { LItem(t, w) : t \in ItemEventTypes, w \in UnknownItems }

DecodeLines == ValidLines \cup SparseLines \cup UnknownLines

\* decodeThreadEvent is applied to the line.
DecodeLine ==
    /\ xpc = "line"
    /\ xFirst' = decodeThreadEvent(xLine)
    /\ xpc' = "decoded"
    /\ UNCHANGED <<xLine, xJSON, xSecond, runLog, vProc, vProd, vCtx, vHist, vCons, vRun,
                   vTap, vDisp, vAux>>

\* The event decoded is marshalled again ...
Encode ==
    /\ xpc = "decoded"
    /\ xFirst.err = Nil
    /\ xJSON' = Marshal(xFirst.event)
    /\ xpc' = "encoded"
    /\ UNCHANGED <<xLine, xFirst, xSecond, runLog, vProc, vProd, vCtx, vHist, vCons, vRun,
                   vTap, vDisp, vAux>>

\* ... and the result is decoded.
Redecode ==
    /\ xpc = "encoded"
    /\ xSecond' = decodeThreadEvent(xJSON)
    /\ xpc' = "redecoded"
    /\ UNCHANGED <<xLine, xFirst, xJSON, runLog, vProc, vProd, vCtx, vHist, vCons, vRun,
                   vTap, vDisp, vAux>>

InitDecode ==
    /\ IdleProducer /\ IdleConsumer /\ IdleRun /\ IdleTap /\ IdleDispatch
    /\ xLine \in DecodeLines
    /\ xpc = "line"
    /\ xFirst = NoResult
    /\ xJSON = NoLine
    /\ xSecond = NoResult
    /\ runLog = <<>>
    /\ IdleAux

NextDecode == DecodeLine \/ Encode \/ Redecode

SpecDecode == InitDecode /\ [][NextDecode]_vars

\* --------------------------------------- CLI bootstrap: ensureBundledBinary
ErrChecksumMismatch == [kind |-> "codex bundle checksum mismatch"]
IOError == [kind |-> "io error"]
DestPath == "cacheDir/release/triple/codex"

Digests == {"d1", "d2"}
RawChecksums == {"", "d1", " D1 ", "d2", "zz"}

\* strings.TrimSpace, strings.ToLower and hex.DecodeString on the
\* checksum values above.
TrimSpace(value) == IF value = " D1 " THEN "D1" ELSE value
LowerCase(value) == IF value = "D1" THEN "d1" ELSE value
IsHex(value) == value \in Digests

\* normalizeChecksum
normalizeChecksum(value) ==
    LET cleaned == LowerCase(TrimSpace(value))
    IN IF cleaned = "" THEN [value |-> "", err |-> Nil]
       ELSE IF ~IsHex(cleaned)
         THEN [value |-> "", err |-> ErrorsNew("invalid checksum value")]
       ELSE [value |-> cleaned, err |-> Nil]

\* bundleConfig.checksumValue: the configured value, else GODEX_CLI_CHECKSUM.
checksumValue(cfg) ==
    LET configured == TrimSpace(cfg.checksumHex)
        value == IF configured = "" THEN TrimSpace(cfg.env) ELSE configured
    IN IF value = "" THEN [value |-> "", err |-> Nil] ELSE normalizeChecksum(value)

\* verifyChecksum on a file with the given digest that can be read or not.
verifyChecksum(file, readable, expectedHex) ==
    IF ~readable THEN Wrap("open binary for checksum", IOError)
    ELSE IF file # expectedHex THEN Wrap("expected, got", ErrChecksumMismatch)
    ELSE Nil

BootReturn(path, err) == [returned |-> TRUE, path |-> path, err |-> err]

\* ensureBundledBinary up to os.MkdirAll.
BootResolve ==
    /\ bpc = "start"
    /\ LET sum == checksumValue(bundleCfg)
       IN IF ~bundleCfg.supported
            THEN bundleRet' = BootReturn("", ErrorsNew("unsupported platform"))
                 /\ bpc' = "returned"
          ELSE IF sum.err # Nil
            THEN bundleRet' = BootReturn("", Wrap("resolve checksum", sum.err))
                 /\ bpc' = "returned"
          ELSE IF ~bundleCfg.mkdirOK
            THEN bundleRet' = BootReturn("", Wrap("create bundle directory", IOError))
                 /\ bpc' = "returned"
          ELSE bundleRet' = bundleRet /\ bpc' = "stat"
    /\ UNCHANGED <<bundleCfg, cacheFile, downloads, ensureCalls, vInput, xLine, xpc, xFirst,
                   xJSON, xSecond, runLog, vProc, vProd, vCtx, vHist, vCons, vRun, vTap,
                   vDisp>>

\* Mutant: a cached binary is returned without looking at its digest.
BootStatTrustsCache ==
    /\ bpc = "stat"
    /\ IF cacheFile # NoFile
         THEN /\ bundleRet' = BootReturn(DestPath, Nil)
              /\ bpc' = "returned"
              /\ UNCHANGED cacheFile
         ELSE /\ bpc' = "download"
              /\ UNCHANGED <<bundleRet, cacheFile>>
    /\ UNCHANGED <<bundleCfg, downloads, ensureCalls, vInput, xLine, xpc, xFirst,
                   xJSON, xSecond, runLog, vProc, vProd, vCtx, vHist, vCons, vRun, vTap,
                   vDisp>>

\* The stat of destPath and what follows it for a cached binary.
BootStat ==
    /\ bpc = "stat"
    /\ LET checksumHex == checksumValue(bundleCfg).value
       IN \E statOK \in BOOLEAN, readable \in BOOLEAN :
            IF cacheFile # NoFile /\ statOK
              THEN IF checksumHex = ""
                     THEN /\ bundleRet' = BootReturn(DestPath, Nil)
                          /\ bpc' = "returned"
                          /\ UNCHANGED cacheFile
                   ELSE LET err == verifyChecksum(cacheFile, readable, checksumHex)
                        IN IF err = Nil
                             THEN /\ bundleRet' = BootReturn(DestPath, Nil)
                                  /\ bpc' = "returned"
                                  /\ UNCHANGED cacheFile
                           ELSE IF ErrorsIs(err, ErrChecksumMismatch)
                             THEN /\ cacheFile' = NoFile
                                  /\ bpc' = "download"
                                  /\ UNCHANGED bundleRet
                           ELSE /\ bundleRet' = BootReturn("", Wrap("verify cached binary", err))
                                /\ bpc' = "returned"
                                /\ UNCHANGED cacheFile
            ELSE IF cacheFile # NoFile
              THEN /\ bundleRet' = BootReturn("", Wrap("stat bundled binary", IOError))
                   /\ bpc' = "returned"
                   /\ UNCHANGED cacheFile
            ELSE /\ bpc' = "download"
                 /\ UNCHANGED <<bundleRet, cacheFile>>
    /\ UNCHANGED <<bundleCfg, downloads, ensureCalls, vInput, xLine, xpc, xFirst,
                   xJSON, xSecond, runLog, vProc, vProd, vCtx, vHist, vCons, vRun, vTap,
                   vDisp>>

\* downloadBinaryFunc: it fails, or it leaves a binary at destPath.
BootDownload ==
    /\ bpc = "download"
    /\ downloads' = downloads + 1
    /\ \/ /\ bundleRet' = BootReturn("", Wrap("download codex binary", IOError))
          /\ bpc' = "returned"
          /\ UNCHANGED cacheFile
       \/ /\ cacheFile' \in Digests
          /\ bpc' = "verify"
          /\ UNCHANGED bundleRet
    /\ UNCHANGED <<bundleCfg, ensureCalls, vInput, xLine, xpc, xFirst,
                   xJSON, xSecond, runLog, vProc, vProd, vCtx, vHist, vCons, vRun, vTap,
                   vDisp>>

\* The downloaded binary is verified when a checksum is configured.
BootVerify ==
    /\ bpc = "verify"
    /\ LET checksumHex == checksumValue(bundleCfg).value
       IN \E readable \in BOOLEAN :
            LET err == IF checksumHex = "" THEN Nil
                       ELSE verifyChecksum(cacheFile, readable, checksumHex)
            IN IF err # Nil
                 THEN /\ cacheFile' = NoFile
                      /\ bundleRet' = BootReturn("", Wrap("verify downloaded binary", err))
                 ELSE /\ bundleRet' = BootReturn(DestPath, Nil)
                      /\ UNCHANGED cacheFile
    /\ bpc' = "returned"
    /\ UNCHANGED <<bundleCfg, downloads, ensureCalls, vInput, xLine, xpc, xFirst,
                   xJSON, xSecond, runLog, vProc, vProd, vCtx, vHist, vCons, vRun, vTap,
                   vDisp>>

\* The next call of ensureBundledBinary on the same cache directory; between
\* calls the cached file may have been replaced or deleted.
BootAgain ==
    /\ bpc = "returned"
    /\ ensureCalls < MaxCalls
    /\ ensureCalls' = ensureCalls + 1
    /\ cacheFile' \in {cacheFile, NoFile} \cup Digests
    /\ downloads' = 0
    /\ bundleRet' = NoResult
    /\ bpc' = "start"
    /\ UNCHANGED <<bundleCfg, vInput, xLine, xpc, xFirst,
                   xJSON, xSecond, runLog, vProc, vProd, vCtx, vHist, vCons, vRun, vTap,
                   vDisp>>

BundleConfigs ==
    [supported : BOOLEAN, mkdirOK : BOOLEAN, checksumHex : RawChecksums, env : {"", "d2"}]

InitBoot ==
    /\ IdleProducer /\ IdleConsumer /\ IdleRun /\ IdleTap /\ IdleDispatch /\ IdleDecode
    /\ runLog = <<>>
    /\ IdleInput
    /\ bundleCfg \in BundleConfigs
    /\ cacheFile \in {NoFile} \cup Digests
    /\ bpc = "start"
    /\ bundleRet = NoResult
    /\ downloads = 0
    /\ ensureCalls = 1

NextBoot == BootResolve \/ BootStat \/ BootDownload \/ BootVerify \/ BootAgain

SpecBoot == InitBoot /\ [][NextBoot]_vars

\* ---------------------------------------------- input: normalizeInput
BlankLine == "\n\n"

\* strings.Join
RECURSIVE Join(_, _)
Join(parts, sep) ==
    IF parts = <<>> THEN ""
    ELSE IF Len(parts) = 1 THEN parts[1]
    ELSE parts[1] \o sep \o Join(Tail(parts), sep)

InputFailure(what, index) == [kind |-> what, index |-> index]
Normalized(prompt, images) == [returned |-> TRUE, err |-> Nil, prompt |-> prompt, images |-> images]
NotNormalized(err) == [returned |-> TRUE, err |-> err]

UnchangedButInput ==
    UNCHANGED <<vBoot, xLine, xpc, xFirst, xJSON, xSecond, runLog, vProc, vProd, vCtx,
                vHist, vCons, vRun, vTap, vDisp>>

\* cleanupAll: the collected cleanups run, the last collected first.
cleanupAll(collected) == [i \in 1..Len(collected) |-> collected[Len(collected) + 1 - i]]

\* normalizeInput up to its loop.
NormalizeStart ==
    /\ ipc = "call"
    /\ IF Len(inSegments) = 0
         THEN /\ inResult' = Normalized(inBase, <<>>)
              /\ ipc' = "normalized"
              /\ UNCHANGED inI
         ELSE /\ inI' = 0
              /\ ipc' = "loop"
              /\ UNCHANGED inResult
    /\ UNCHANGED <<inBase, inSegments, promptParts, inImages, adapterArgs, cleanups,
                   released>>
    /\ UnchangedButInput

\* Mutant: a segment with both members set is taken as text.
NormalizeSegmentTextFirst ==
    /\ ipc = "loop"
    /\ inI < Len(inSegments)
    /\ LET segment == inSegments[inI + 1]
           hasText == segment.Text # ""
           hasImage == segment.LocalImagePath # ""
           collected == IF segment.cleanup THEN Append(cleanups, inI + 1) ELSE cleanups
       IN /\ cleanups' = collected
          /\ IF ~hasText /\ ~hasImage
               THEN /\ released' = cleanupAll(collected)
                    /\ inResult' = NotNormalized(
                          InputFailure("must specify text or image", inI))
                    /\ ipc' = "failed"
                    /\ UNCHANGED <<inI, promptParts, inImages>>
               ELSE /\ promptParts' = IF hasText THEN Append(promptParts, segment.Text)
                                                 ELSE promptParts
                    /\ inImages' = IF hasText THEN inImages
                                   ELSE Append(inImages, segment.LocalImagePath)
                    /\ inI' = inI + 1
                    /\ UNCHANGED <<inResult, ipc, released>>
    /\ UNCHANGED <<inBase, inSegments, adapterArgs>>
    /\ UnchangedButInput

\* One iteration of `for i, segment := range segments`.
NormalizeSegment ==
    /\ ipc = "loop"
    /\ inI < Len(inSegments)
    /\ LET segment == inSegments[inI + 1]
           hasText == segment.Text # ""
           hasImage == segment.LocalImagePath # ""
           collected == IF segment.cleanup THEN Append(cleanups, inI + 1) ELSE cleanups
       IN /\ cleanups' = collected
          /\ IF hasText /\ hasImage
               THEN /\ released' = cleanupAll(collected)
                    /\ inResult' = NotNormalized(
                          InputFailure("must specify either text or image, not both", inI))
                    /\ ipc' = "failed"
                    /\ UNCHANGED <<inI, promptParts, inImages>>
             ELSE IF ~hasText /\ ~hasImage
               THEN /\ released' = cleanupAll(collected)
                    /\ inResult' = NotNormalized(
                          InputFailure("must specify text or image", inI))
                    /\ ipc' = "failed"
                    /\ UNCHANGED <<inI, promptParts, inImages>>
             ELSE /\ promptParts' = IF hasText THEN Append(promptParts, segment.Text)
                                               ELSE promptParts
                  /\ inImages' = IF hasText THEN inImages
                                 ELSE Append(inImages, segment.LocalImagePath)
                  /\ inI' = inI + 1
                  /\ UNCHANGED <<inResult, ipc, released>>
    /\ UNCHANGED <<inBase, inSegments, adapterArgs>>
    /\ UnchangedButInput

\* After the loop: the prompt is the joined fragments, or base without any.
NormalizeFinish ==
    /\ ipc = "loop"
    /\ inI = Len(inSegments)
    /\ inResult' = Normalized(IF Len(promptParts) > 0 THEN Join(promptParts, BlankLine)
                                                      ELSE inBase,
                              inImages)
    /\ ipc' = "normalized"
    /\ UNCHANGED <<inBase, inSegments, inI, promptParts, inImages, adapterArgs,
                   cleanups, released>>
    /\ UnchangedButInput

\* runStreamed builds the adapter's Args from the prepared input.
PassArgs ==
    /\ ipc = "normalized"
    /\ adapterArgs' = [Input |-> inResult.prompt, Images |-> inResult.images]
    /\ ipc' = "running"
    /\ UNCHANGED <<inBase, inSegments, inI, promptParts, inImages, inResult, cleanups,
                   released>>
    /\ UnchangedButInput

\* The caller invokes the cleanup of the normalizedInput it was returned.
PreparedCleanup ==
    /\ ipc \in {"normalized", "running"}
    /\ released = <<>>
    /\ released' = cleanupAll(cleanups)
    /\ UNCHANGED <<inBase, inSegments, ipc, inI, promptParts, inImages, inResult,
                   adapterArgs, cleanups>>
    /\ UnchangedButInput

\* cleanup: the segment carries a cleanup function (it owns a temporary file).
Segments ==
    [Text : {"", "first", "second"}, LocalImagePath : {"", "/tmp/a.png", "/tmp/b.png"},
     cleanup : BOOLEAN]

InitInput ==
    /\ IdleProducer /\ IdleConsumer /\ IdleRun /\ IdleTap /\ IdleDispatch /\ IdleDecode
    /\ runLog = <<>>
    /\ IdleBoot
    /\ inBase \in {"", "base"}
    /\ inSegments \in SeqsUpTo(Segments, MaxSegments)
    /\ ipc = "call"
    /\ inI = 0
    /\ promptParts = <<>>
    /\ inImages = <<>>
    /\ inResult = NoResult
    /\ adapterArgs = NoArgs
    /\ cleanups = <<>>
    /\ released = <<>>

NextInput ==
    \/ NormalizeStart \/ NormalizeSegment \/ NormalizeFinish \/ PassArgs
    \/ PreparedCleanup

SpecInput == InitInput /\ [][NextInput]_vars

\* ================================================================== claims
\* What a run over the whole output is expected to collect, computed from
\* the output lines rather than by the consumer loop.
AllDecode(lines) == \A i \in 1..Len(lines) : Decodes(lines[i])
TypesOf(lines) == {lines[i].type : i \in 1..Len(lines)}
CompletedIdx(lines) == {i \in 1..Len(lines) : lines[i].type = "item.completed"}
MessageIdx(lines) == {i \in CompletedIdx(lines) : lines[i].item.type = "agent_message"}
UsageIdx(lines) == {i \in 1..Len(lines) : lines[i].type = "turn.completed"}
MaxOf(S) == CHOOSE i \in S : \A j \in S : j <= i
RECURSIVE ItemsFrom(_, _)
ItemsFrom(lines, i) ==
    IF i > Len(lines) THEN <<>>
    ELSE IF i \in CompletedIdx(lines)
      THEN <<EventOf(lines[i]).Item>> \o ItemsFrom(lines, i + 1)
    ELSE ItemsFrom(lines, i + 1)
ExpectedTurn(lines) ==
    [Items |-> ItemsFrom(lines, 1),
     FinalResponse |-> IF MessageIdx(lines) = {} THEN ""
                       ELSE lines[MaxOf(MessageIdx(lines))].item.text,
     Usage |-> IF UsageIdx(lines) = {} THEN NoUsage
               ELSE EventOf(lines[MaxOf(UsageIdx(lines))]).Usage]
CleanRun ==
    /\ api = "Run"
    /\ result.returned
    /\ cancelBy # "caller"
    /\ proc = "exited"
    /\ exitCode = 0
    /\ AllDecode(output)
    /\ TypesOf(output) \cap {"turn.failed", "error"} = {}

\* C1: Thread.Run over a process that emits valid events, no turn.failed and
\* no error event, and exits successfully returns without error a Turn whose
\* Items are the items of the item.completed events in arrival order, whose
\* FinalResponse is the text of the last completed agent_message ("" when
\* none) and whose Usage is that of the last turn.completed (none when none).
C1_RunReturnsTurn ==
    CleanRun => result.err = Nil /\ result.turn = ExpectedTurn(output)

\* The run of successEvents: one item, FinalResponse "Hello", Usage U.
C1_Witness ==
    /\ CleanRun
    /\ output = <<LThreadStarted("A"),
                  LItem("item.completed", WAgentMessage("m1", TextHello)),
                  LTurnCompleted(Usage1)>>
    /\ Len(result.turn.Items) = 1
    /\ result.turn.FinalResponse = "Hello"
    /\ result.turn.Usage = [InputTokens |-> 1, CachedInputTokens |-> 0, OutputTokens |-> 1]

StartedThenError ==
    /\ Len(decoded) = 2
    /\ decoded[1].Type = "thread.started"
    /\ decoded[2].Type = "error"

\* C2: when the events decoded are [thread.started, error(m)], Thread.Run
\* returns a ThreadStreamError with Message m, and in a streaming run whose
\* Events() were drained Wait returns a ThreadStreamError with Message m.
C2_StreamErrorReported ==
    StartedThenError =>
      /\ (api = "Run" /\ result.returned) =>
            /\ AsThreadStreamError(result.err)
            /\ result.err.Message = decoded[2].Message
      /\ (cpc = "closed" /\ waitResult # Pending) =>
            /\ AsThreadStreamError(waitResult)
            /\ waitResult.Message = decoded[2].Message

C2_Witness ==
    /\ StartedThenError
    /\ cpc = "closed"
    /\ waitDrained
    /\ waitResult = ThreadStreamError(sBoom)
    /\ exitCode = 0
    /\ ~ctxDone

NoReadFailure == readErr = Nil \/ readErr = Canceled

C4_ReceivedIsPrefix ==
    /\ IsPrefix(received, decoded)
    /\ (cpc = "closed" /\ ~ctxDone) => received = decoded

C4_Witness ==
    /\ cpc = "closed"
    /\ ~ctxDone
    /\ Len(received) >= 2
    /\ received = decoded

\* C5: with TurnOptions.Callbacks set, every event received from Events()
\* has had its callbacks run before, in decoding order.
C5_CallbacksBeforeDelivery ==
    turnOpts.Callbacks => IsPrefix(received, callbackLog)

SpecThread == (InitRun \/ InitStream) /\ [][NextRun \/ NextStream]_vars

\* The dispatcher's contract, stated from the event alone.
Registered == IF dCallbacks.nil THEN {} ELSE dCallbacks.set
StageOf(t) ==
    CASE t = "item.started" -> "started"
      [] t = "item.updated" -> "updated"
      [] t = "item.completed" -> "completed"
TypedHookOf(e) ==
    CASE e.Type = "thread.started" -> "OnThreadStarted"
      [] e.Type = "turn.started" -> "OnTurnStarted"
      [] e.Type = "turn.completed" -> "OnTurnCompleted"
      [] e.Type = "turn.failed" -> "OnTurnFailed"
      [] e.Type = "error" -> "OnThreadError"
      [] e.Type \in ItemEventTypes ->
           CASE e.Item.Type = "agent_message" -> "OnMessage"
             [] e.Item.Type = "reasoning" -> "OnReasoning"
             [] e.Item.Type = "command_execution" -> "OnCommand"
             [] e.Item.Type = "file_change" -> "OnPatch"
             [] e.Item.Type = "mcp_tool_call" -> "OnToolCall"
             [] e.Item.Type = "web_search" -> "OnWebSearch"
             [] e.Item.Type = "todo_list" -> "OnTodoList"
             [] e.Item.Type = "error" -> "OnErrorItem"
             [] OTHER -> "none"
CallsOf(cb) == {i \in 1..Len(dLog) : dLog[i].cb = cb}
IsFileChange(e) == e.Type \in ItemEventTypes /\ e.Item.Type = "file_change"
ItemOfArg(a) ==
    CHOOSE v \in {a[f] : f \in DOMAIN a \ {"Stage"}} : TRUE

\* C6: handle invokes OnEvent (when registered) exactly once and first, then
\* exactly the one typed callback selected by the event's tag, or for item
\* events by the item's tag with the stage of the event (file_change items
\* also get the per-file fan-out); a callback that is not registered, or a
\* nil set, is skipped and nothing is invoked in its place.
C6_DispatchOrder ==
    dEvent # NoEvent =>
      LET hook == TypedHookOf(dEvent)
          allowed == ({"OnEvent", hook}
                      \cup (IF IsFileChange(dEvent) THEN {"OnFileChange"} ELSE {}))
                     \cap Registered
      IN /\ {dLog[i].cb : i \in 1..Len(dLog)} \subseteq allowed
         /\ "OnEvent" \in Registered =>
               /\ CallsOf("OnEvent") = {1}
               /\ dLog[1].arg = dEvent
         /\ hook \in Registered =>
               /\ Cardinality(CallsOf(hook)) = 1
               /\ \A i \in CallsOf(hook) :
                     IF dEvent.Type \in ItemEventTypes
                       THEN /\ dLog[i].arg.Stage = StageOf(dEvent.Type)
                            /\ ItemOfArg(dLog[i].arg) = dEvent.Item
                       ELSE dLog[i].arg = dEvent
         /\ (IsFileChange(dEvent) /\ "OnFileChange" \in Registered) =>
               Cardinality(CallsOf("OnFileChange")) = Len(dEvent.Item.Changes)
         /\ \A i \in CallsOf("OnFileChange") :
               /\ dLog[i].arg.Stage = StageOf(dEvent.Type)
               /\ \A j \in CallsOf("OnPatch") : j < i

\* Every hook but one is registered and an item event was dispatched: the
\* catch-all and the item's hook both ran, in that order.
C6_Witness ==
    /\ dEvent # NoEvent
    /\ dEvent.Type = "item.updated"
    /\ dEvent.Item.Type = "command_execution"
    /\ Registered = AllCallbacks \ {"OnMessage"}
    /\ Len(dLog) = 2
    /\ dLog[1].cb = "OnEvent"
    /\ dLog[2].cb = "OnCommand"

\* C7: for a file_change item with n changes in an item event, with OnPatch
\* and OnFileChange registered, OnPatch is invoked once and OnFileChange n
\* times, the i-th with the i-th change and the parent patch, all with the
\* stage of the OnPatch invocation, OnPatch first.
C7_FileChangeFanOut ==
    (dEvent # NoEvent /\ IsFileChange(dEvent)
       /\ {"OnPatch", "OnFileChange"} \subseteq Registered) =>
      LET n == Len(dEvent.Item.Changes)
          first == IF "OnEvent" \in Registered THEN 2 ELSE 1
      IN /\ CallsOf("OnPatch") = {first}
         /\ CallsOf("OnFileChange") = (first + 1)..(first + n)
         /\ \A i \in 1..n :
               /\ dLog[first + i].arg.Change = dEvent.Item.Changes[i]
               /\ dLog[first + i].arg.Patch = dEvent.Item
               /\ dLog[first + i].arg.Stage = dLog[first].arg.Stage
         /\ dLog[first].arg.Stage = StageOf(dEvent.Type)

\* A patch with two different edits was dispatched at stage completed.
C7_Witness ==
    /\ dEvent # NoEvent
    /\ IsFileChange(dEvent)
    /\ dEvent.Type = "item.completed"
    /\ Registered = {"OnPatch", "OnFileChange"}
    /\ Len(dEvent.Item.Changes) = 2
    /\ dEvent.Item.Changes[1] # dEvent.Item.Changes[2]
    /\ Len(dLog) = 3
    /\ dLog[2].arg.Change.Path = "main.go"
    /\ dLog[3].arg.Change.Path = "README.md"

\* ------------------------------------------------ structured output claims
IsFinalMessage(e) == e.Type = "item.completed" /\ e.Item.Type = "agent_message"
Snapshotted(e) ==
    /\ e.Type \in {"item.updated", "item.completed"}
    /\ e.Item.Type = "agent_message"
    /\ Unmarshal(e.Item.Text).err = Nil
SnapshotOf(e) ==
    [Value |-> Unmarshal(e.Item.Text).value, Raw |-> e.Item.Text,
     Final |-> (e.Type = "item.completed")]
RECURSIVE Snapshots(_)
Snapshots(evs) ==
    IF evs = <<>> THEN <<>>
    ELSE (IF Snapshotted(Head(evs)) THEN <<SnapshotOf(Head(evs))>> ELSE <<>>)
           \o Snapshots(Tail(evs))
DecodedTypes == {decoded[i].Type : i \in 1..Len(decoded)}
FinalMessages == {i \in 1..Len(decoded) : IsFinalMessage(decoded[i])}
TurnFailures == {i \in 1..Len(decoded) : decoded[i].Type = "turn.failed"}

\* C8: RunStreamedJSON with a caller that keeps reading (and never cancels):
\* once the tap has finished and the caller has read all there is, Updates()
\* is closed and has yielded, in event order, exactly one snapshot per
\* agent_message item.updated / item.completed event whose text decodes,
\* with Raw the text, Value its decode and Final set for item.completed.
C8_SnapshotPerMessage ==
    (api = "RunStreamedJSON" /\ cpc = "reading" /\ cancelBy = "none"
       /\ tpc = "done" /\ upBuf = <<>>) =>
      /\ upClosed
      /\ gotUpdates = Snapshots(decoded)

\* C9: RunStreamedJSON: a turn.completed was decoded, no agent_message
\* item.completed decoded into T, the stream ended without error: Wait,
\* called when the run has finished and both channels are closed and empty,
\* returns ErrNoStructuredOutput.  (Runs in which the extractor recorded
\* another error first, a final message that fails to decode or a turn.failed,
\* and cancelled runs are left out.)
C9_NoStructuredOutputReported ==
    (api = "RunStreamedJSON" /\ waitResult # Pending /\ waitDrained
       /\ streamErr = Nil /\ cancelBy = "none"
       /\ "turn.completed" \in DecodedTypes
       /\ FinalMessages = {} /\ TurnFailures = {}) =>
      waitResult = ErrNoStructuredOutput

SchemaVocabulary(m) ==
    \/ m = <<>>
    \/ Contains(ToLower(m), sSchema)
    \/ Contains(ToLower(m), sStructured)
    \/ Contains(ToLower(m), sValidation)
ClassifiedAs(err, m) ==
    IF SchemaVocabulary(m)
      THEN err = SchemaViolationError(m)
      ELSE /\ err # Nil
           /\ err.kind # "SchemaViolationError"
           /\ ErrorText(err) = m
\* The run's one failure: a single turn.failed, a stream that ended without
\* error, and no final message whose decode failed.
OneTurnFailure ==
    /\ Cardinality(TurnFailures) = 1
    /\ streamErr = Nil
    /\ cancelBy # "caller"
    /\ \A i \in FinalMessages : Unmarshal(decoded[i].Item.Text).err = Nil
TheFailureMessage == decoded[CHOOSE i \in TurnFailures : TRUE].Error.Message

\* C10: with a schema supplied or inferred, a turn.failed whose message is
\* empty or contains "schema", "structured output" or "validation" (in any
\* case) makes RunJSON return, and Wait of RunStreamedJSON (called after the
\* channels are drained) report, a SchemaViolationError with that message;
\* any other message is reported as a generic error with the message
\* unchanged.
C10_TurnFailureClassified ==
    /\ (api = "RunJSON" /\ result.returned /\ rpc = "done" /\ done /\ OneTurnFailure) =>
         ClassifiedAs(result.err, TheFailureMessage)
    /\ (api = "RunStreamedJSON" /\ waitResult # Pending /\ waitDrained /\ OneTurnFailure) =>
         ClassifiedAs(waitResult, TheFailureMessage)


\* ------------------------------------------------------------ decoder claims
Decoded == xpc \in {"decoded", "encoded", "redecoded"}
TypeOfLine(o) == IF "type" \in DOMAIN o THEN o.type ELSE ""
ItemMissingOrNull(line) == "item" \notin DOMAIN line
UnrecognizedLine(line) ==
    \/ TypeOfLine(line) \notin EventTypes
    \/ /\ TypeOfLine(line) \in ItemEventTypes
       /\ \/ ItemMissingOrNull(line)
          \/ TypeOfLine(line.item) \notin ItemTypes

\* C11: decodeThreadEvent returns an error and no event for every line whose
\* type is missing or not one of the eight event discriminants, and for every
\* item line whose item is missing, null, or of a missing or unrecognized type.
C11_UnrecognizedRejected ==
    (Decoded /\ xLine.json /\ UnrecognizedLine(xLine)) =>
      /\ xFirst.err # Nil
      /\ "event" \notin DOMAIN xFirst

C11_Witness ==
    /\ Decoded
    /\ xLine = [json |-> TRUE, type |-> "item.completed", nulls |-> {"item"}]
    /\ xFirst.err # Nil


\* ---------------------------------------------------- thread identifier
StartedIDs(evs) ==
    {evs[i].ThreadID : i \in {j \in 1..Len(evs) : evs[j].Type = "thread.started"}}
FirstStarted(evs) ==
    evs[CHOOSE i \in 1..Len(evs) :
          /\ evs[i].Type = "thread.started"
          /\ \A j \in 1..(i - 1) : evs[j].Type # "thread.started"].ThreadID

\* C12: during a run the thread identifier is assigned at most once:
\* Thread.ID() is the thread_id of the first thread.started event decoded in
\* the run, whatever thread.started events follow.
C12_ThreadIDAssignedOnce ==
    StartedIDs(decoded) # {} => threadID = FirstStarted(decoded)

\* C13: each run of a reused Thread hands the adapter the value Thread.ID()
\* had when the run was started: the empty string for the first run of a new
\* thread, the thread_id of the previous run's thread.started for the next;
\* and after a run that decoded thread.started(id), Thread.ID() is id.
C13_ResumeWithThreadID ==
    /\ runLog # <<>> => runLog[1].ThreadID = ""
    /\ \A k \in 2..Len(runLog) :
         \A id \in {"A", "B"} :
           StartedIDs(runLog[k - 1].decoded) = {id} => runLog[k].ThreadID = id
    /\ \A id \in {"A", "B"} :
         (runLog # <<>> /\ ppc = "done" /\ StartedIDs(decoded) = {id}) => threadID = id

C13_Witness ==
    /\ Len(runLog) = 2
    /\ StartedIDs(runLog[1].decoded) = {"A"}
    /\ runLog[2].ThreadID = "A"
    /\ ppc = "done"
    /\ StartedIDs(decoded) = {"B"}
    /\ threadID = "B"


ErrorEvents == SelectSeq(decoded, LAMBDA e : e.Type = "error")
AdapterFailure ==
    IF ErrorsIs(runRet, Canceled) THEN "canceled"
    ELSE IF runRet = Nil THEN "none"
    ELSE IF runRet.kind = ExitError(0, "").kind THEN "exit"
    ELSE "decode"

\* C15: in a streaming run in which a stream-level error event was decoded
\* and the adapter's run function then returned an error of its own, Wait
\* (and Close, which cancels and then waits) returns the ThreadStreamError
\* built from the error event and not the adapter's error.
C15_StreamErrorTakesPrecedence ==
    (waitResult # Pending /\ ErrorEvents # <<>> /\ runRet # Nil) =>
      /\ AsThreadStreamError(waitResult)
      /\ waitResult.Message = ErrorEvents[Len(ErrorEvents)].Message
      /\ waitResult # runRet

\* An error event was decoded, the caller closed the stream while the
\* subprocess was running, the adapter returned context.Canceled, and Wait
\* reported the stream-level error.
C15_Witness ==
    /\ waitResult # Pending
    /\ ErrorEvents # <<>>
    /\ cancelBy = "caller"
    /\ runRet = Canceled
    /\ AsThreadStreamError(waitResult)

C15_WitnessDecode ==
    /\ waitResult # Pending /\ ErrorEvents # <<>> /\ AdapterFailure = "decode"
C15_WitnessExit ==
    /\ waitResult # Pending /\ ErrorEvents # <<>> /\ AdapterFailure = "exit"

\* C16: in a streaming run in which a turn.failed event was decoded and
\* nothing else failed (no error event, no adapter error), Wait does not
\* return nil.
C16_TurnFailedReported ==
    (/\ waitResult # Pending
     /\ \E i \in 1..Len(decoded) : decoded[i].Type = "turn.failed"
     /\ ErrorEvents = <<>>
     /\ runRet = Nil) => waitResult # Nil

\* C17: whenever Thread.Run has consumed a turn.failed event and returns,
\* it returns no Turn and an error whose message is the message of that
\* event.
C17_RunReturnsTurnFailure ==
    (api = "Run" /\ rpc = "done" /\ turnFailure # NoFailure) =>
      /\ result.turn = EmptyTurn
      /\ result.err = ErrorsNew(turnFailure.Message)

\* C18: in a streaming run, once a stream-level error event has been
\* decoded no event decoded from a later line is forwarded on Events(): an
\* error event that was received is the last event received.
C18_ErrorEventEndsStream ==
    \A i \in 1..Len(received) :
        received[i].Type = "error" => i = Len(received)

ExitPath ==
    IF ErrorEvents # <<>> THEN "stream error"
    ELSE IF ctxDone /\ ErrorsIs(runRet, Canceled) THEN "cancellation"
    ELSE IF readErr # Nil THEN "decode error"
    ELSE IF runRet = Nil THEN "normal end"
    ELSE "exit status"

\* C19: the temporary output-schema file of a run is gone once Events() has
\* been drained to closure and Wait has returned, whichever way the producer
\* ended; a run without OutputSchema never has such a file.
C19_SchemaFileRemoved ==
    /\ (cpc = "closed" /\ waitResult # Pending) => ~schemaFile
    /\ ~turnOpts.OutputSchema => ~schemaFile

\* A run with an OutputSchema was cancelled while the file existed, Events()
\* was drained, Wait returned, and the file is gone.
C19_Witness ==
    /\ turnOpts.OutputSchema
    /\ cpc = "closed" /\ waitResult # Pending
    /\ ExitPath = "cancellation"
    /\ ~schemaFile

C19_WitnessNormal ==
    turnOpts.OutputSchema /\ cpc = "closed" /\ waitResult # Pending /\ ExitPath = "normal end"
C19_WitnessDecode ==
    turnOpts.OutputSchema /\ cpc = "closed" /\ waitResult # Pending /\ ExitPath = "decode error"
C19_WitnessStreamError ==
    turnOpts.OutputSchema /\ cpc = "closed" /\ waitResult # Pending /\ ExitPath = "stream error"

\* The members of a wire object the decoder knows, by discriminant.
EventScalars(t) ==
    CASE t = "thread.started" -> {"type", "thread_id"}
      [] t = "error" -> {"type", "message"}
      [] OTHER -> {"type"}
EventObjects(t) ==
    CASE t = "turn.completed" -> {"usage"}
      [] t = "turn.failed" -> {"error"}
      [] t \in ItemEventTypes -> {"item"}
      [] OTHER -> {}
ObjectScalars(f, o) ==
    CASE f = "usage" -> {"input_tokens", "cached_input_tokens", "output_tokens"}
      [] f = "error" -> {"message"}
      [] f = "item" ->
           {"id", "type"} \cup
           CASE o.type \in {"agent_message", "reasoning"} -> {"text"}
             [] o.type = "command_execution" ->
                  {"command", "aggregated_output", "exit_code", "status"}
             [] o.type = "file_change" -> {"status"}
             [] o.type = "mcp_tool_call" -> {"server", "tool", "status"}
             [] o.type = "web_search" -> {"query"}
             [] o.type = "error" -> {"message"}
             [] OTHER -> {}
ItemLists(o) ==
    CASE o.type = "file_change" -> {"changes"}
      [] o.type = "todo_list" -> {"items"}
      [] OTHER -> {}
ElementScalars(f) == IF f = "changes" THEN {"path", "kind"} ELSE {"text", "completed"}

\* The members of fs that `in` carries with a value are carried by `out`
\* with the same value; with nullsToo, those it carries as null are null in
\* `out` as well.
NullsKept(in, out, fs, nullsToo) ==
    nullsToo => \A f \in fs \cap Nulls(in) : f \in Nulls(out)
Kept(in, out, fs, nullsToo) ==
    /\ \A f \in fs \cap DOMAIN in : f \in DOMAIN out /\ out[f] = in[f]
    /\ NullsKept(in, out, fs, nullsToo)
ListKept(in, out, f, nullsToo) ==
    f \in DOMAIN in =>
      /\ f \in DOMAIN out
      /\ Len(out[f]) = Len(in[f])
      /\ \A i \in 1..Len(in[f]) : Kept(in[f][i], out[f][i], ElementScalars(f), nullsToo)
ObjectKept(in, out, f, nullsToo) ==
    f \in DOMAIN in =>
      /\ f \in DOMAIN out
      /\ Kept(in[f], out[f], ObjectScalars(f, in[f]), nullsToo)
      /\ f = "item" =>
            /\ NullsKept(in[f], out[f], ItemLists(in[f]), nullsToo)
            /\ \A l \in ItemLists(in[f]) : ListKept(in[f], out[f], l, nullsToo)
LineKept(in, out, nullsToo) ==
    /\ Kept(in, out, EventScalars(in.type), nullsToo)
    /\ NullsKept(in, out, EventObjects(in.type), nullsToo)
    /\ \A f \in EventObjects(in.type) : ObjectKept(in, out, f, nullsToo)

RoundTripDone == xpc = "redecoded"

\* C20 as stated: for an accepted line, decoding the re-encoded event gives
\* the same event, and every known member present in the line, null ones
\* included, has the same value in the re-encoded object.
C20_Original ==
    RoundTripDone =>
      /\ xSecond = xFirst
      /\ LineKept(xLine, xJSON, TRUE)

\* C20 amended: for an accepted line, decoding the re-encoded event gives
\* the same event, and every known member present in the line with a value
\* other than null has the same value in the re-encoded object.
C20_RoundTrip ==
    RoundTripDone =>
      /\ xSecond = xFirst
      /\ LineKept(xLine, xJSON, FALSE)

\* A completed command with exit code 0 went through the round trip and its
\* exit_code member is in the re-encoded object.
C20_Witness ==
    /\ RoundTripDone
    /\ xLine.type = "item.completed"
    /\ xLine.item.type = "command_execution"
    /\ "exit_code" \in DOMAIN xLine.item
    /\ xLine.item.exit_code = 0
    /\ xJSON.item.exit_code = 0
    /\ xSecond.err = Nil

\* A line with a null member went through the round trip.
C20_WitnessNull ==
    /\ RoundTripDone
    /\ Nulls(xLine) # {}

\* ------------------------------------------------------------ CLI bootstrap
ConfiguredChecksum == checksumValue(bundleCfg).value
BootSucceeded == bpc = "returned" /\ bundleRet.err = Nil
CachedMatches ==
    /\ bpc = "stat" /\ cacheFile # NoFile
    /\ (ConfiguredChecksum = "" \/ cacheFile = ConfiguredChecksum)
CachedMismatches ==
    /\ bpc = "stat" /\ cacheFile # NoFile
    /\ ConfiguredChecksum # "" /\ cacheFile # ConfiguredChecksum
DownloadedMismatches ==
    /\ bpc = "verify"
    /\ ConfiguredChecksum # "" /\ cacheFile # ConfiguredChecksum

\* C21: with a checksum configured ensureBundledBinary returns successfully
\* only destPath holding a file of that digest; a cached binary that matches
\* (or any cached binary when no checksum is configured) is returned without
\* calling the downloader; a cached binary that mismatches is removed and the
\* downloader is called, at most once per call; a downloaded binary that
\* mismatches is removed and the call fails with ErrChecksumMismatch.  (A
\* file that cannot be read makes the call fail with the read error.)
C21_ChecksumEnforced ==
    [][/\ (BootSucceeded /\ ConfiguredChecksum # "")' =>
             (bundleRet.path = DestPath /\ cacheFile = ConfiguredChecksum)'
       /\ downloads' <= 1
       /\ CachedMatches =>
             /\ bpc' = "returned" /\ downloads' = 0 /\ cacheFile' = cacheFile
             /\ \/ bundleRet'.err = Nil /\ bundleRet'.path = DestPath
                \/ ErrorsIs(bundleRet'.err, IOError)
       /\ CachedMismatches =>
             \/ bpc' = "download" /\ cacheFile' = NoFile
             \/ bpc' = "returned" /\ ErrorsIs(bundleRet'.err, IOError)
       /\ DownloadedMismatches =>
             /\ bpc' = "returned" /\ cacheFile' = NoFile
             /\ \/ ErrorsIs(bundleRet'.err, ErrChecksumMismatch)
                \/ ErrorsIs(bundleRet'.err, IOError)]_vars

\* The second call on a cache directory found no usable binary, downloaded
\* one of the configured digest and returned its path.
C21_Witness ==
    /\ BootSucceeded
    /\ ensureCalls = 2
    /\ ConfiguredChecksum = "d1"
    /\ cacheFile = "d1"
    /\ downloads = 1

C21_WitnessMismatch ==
    /\ bpc = "returned"
    /\ downloads = 1
    /\ ErrorsIs(bundleRet.err, ErrChecksumMismatch)
    /\ cacheFile = NoFile

\* ----------------------------------------------------------- input claims
Valid(segment) == (segment.Text = "") # (segment.LocalImagePath = "")
InvalidAt == {i \in 1..Len(inSegments) : ~Valid(inSegments[i])}
TextsOf(segs) ==
    LET texts == SelectSeq(segs, LAMBDA g : g.Text # "")
    IN [i \in 1..Len(texts) |-> texts[i].Text]
ImagesOf(segs) ==
    LET paths == SelectSeq(segs, LAMBDA g : g.LocalImagePath # "")
    IN [i \in 1..Len(paths) |-> paths[i].LocalImagePath]
RECURSIVE JoinedLeft(_)
JoinedLeft(parts) ==
    IF Len(parts) = 1 THEN parts[1]
    ELSE JoinedLeft(SubSeq(parts, 1, Len(parts) - 1)) \o "\n\n" \o parts[Len(parts)]
ExpectedPrompt ==
    IF TextsOf(inSegments) = <<>> THEN inBase ELSE JoinedLeft(TextsOf(inSegments))

\* C22: normalizeInput fails exactly when some segment has both or neither
\* of Text and LocalImagePath set, with an error carrying the index of the
\* first such segment; otherwise the images are the LocalImagePath values in
\* segment order and the prompt is the Text values in segment order joined
\* by "\n\n", or base when no segment has text; and the adapter's Args carry
\* this prompt and this image list.
C22_NormalizeInput ==
    /\ inResult # NoResult =>
         IF InvalidAt # {}
           THEN /\ inResult.err # Nil
                /\ \A i \in InvalidAt :
                       (\A j \in InvalidAt : i <= j) => inResult.err.index = i - 1
                /\ adapterArgs = NoArgs
           ELSE /\ inResult.err = Nil
                /\ inResult.prompt = ExpectedPrompt
                /\ inResult.images = ImagesOf(inSegments)
    /\ adapterArgs # NoArgs =>
         /\ adapterArgs.Input = ExpectedPrompt
         /\ adapterArgs.Images = ImagesOf(inSegments)

\* Two text fragments around an image, with a base prompt that is replaced.
C22_Witness ==
    /\ ipc = "running"
    /\ inBase = "base"
    /\ Len(inSegments) = 3
    /\ adapterArgs.Input = "first\n\nsecond"
    /\ adapterArgs.Images = <<"/tmp/a.png">>

C22_WitnessInvalid ==
    /\ ipc = "failed"
    /\ inResult.err.index = 1

\* ------------------------------------------------------------- termination
\* The producer is in its forwarding select, nobody receives from Events()
\* and the context is not cancelled: neither case of the select can fire.
ProducerBlocked == ppc = "send" /\ ~ctxDone
RunWaiting == api = "Run" /\ rpc = "wait" /\ ~done

\* C23: Thread.Run, without cancellation by the caller, returns for every
\* finite output of valid lines: while Run waits for the stream to finish,
\* the producer is never blocked forwarding an event nobody will receive.
C23_RunNotBlocked ==
    ~(RunWaiting /\ ProducerBlocked)

\* C24: once cancellation is requested on a streaming run (Close cancels and
\* then waits), a producer blocked forwarding an event abandons the
\* delivery, the terminal error is recorded and the wait returns, whether or
\* not the caller ever reads Events().
C24_CloseReturns ==
    /\ ctxDone ~> (done /\ ppc = "done")
    /\ ctxDone ~> (waitResult # Pending)
    /\ (ctxDone /\ ppc = "send") ~> (ppc # "send")

\* The caller never received an event, cancelled while the producer was
\* forwarding one, the delivery was abandoned and the wait returned.
C24_Witness ==
    /\ cancelBy = "caller"
    /\ received = <<>>
    /\ Len(decoded) = 1
    /\ readErr = Canceled
    /\ waitResult # Pending
    /\ ppc = "done"

\* ------------------------------------------------------------ decode errors
\* The output lines up to and including the first one that does not decode.
BadLineAt == {i \in 1..Len(output) : decodeThreadEvent(output[i]).err # Nil}
FirstBad == CHOOSE i \in BadLineAt : \A j \in BadLineAt : i <= j
BadLineHandled ==
    /\ BadLineAt # {}
    /\ readErr # Nil /\ readErr # Canceled

\* C25: when a line fails to decode in a run without an earlier stream-level
\* error event, no event is forwarded for that line or a later one: the
\* events decoded, and so those received, are at most the events of the
\* lines before it, in order; the subprocess does not keep running; once
\* the producer is done Events() is closed; and Wait returns an error that
\* wraps the decode error.
C25_DecodeErrorFatal ==
    (BadLineHandled /\ ErrorEvents = <<>>) =>
      /\ decoded = [i \in 1..(FirstBad - 1) |-> EventOf(output[i])]
      /\ IsPrefix(received, decoded)
      /\ proc # "running"
      /\ readErr = Wrap("parse event", decodeThreadEvent(output[FirstBad]).err)
      /\ ppc = "done" => eventsClosed
      /\ waitResult # Pending =>
            /\ waitResult # Nil
            /\ ErrorsIs(waitResult, decodeThreadEvent(output[FirstBad]).err)

\* Two events were forwarded, the third line was malformed, Wait returned.
C25_Witness ==
    /\ BadLineHandled /\ ErrorEvents = <<>>
    /\ FirstBad = 3
    /\ Len(received) = 2
    /\ cpc = "closed"
    /\ waitResult # Pending
    /\ ~ctxDone

\* --------------------------------------------------- single-shot run outcome
RunReturned == api = "Run" /\ rpc = "done"
ReceivedTypes == {received[i].Type : i \in 1..Len(received)}

\* C26: Thread.Run returns a Turn without error only when the stream has
\* finished with a nil terminal error; when the stream finished with an
\* error (and Run did not stop at an error event), Run returns that error
\* and an empty Turn, whatever it had collected.
C26_TurnOnlyAfterCleanFinish ==
    RunReturned =>
      /\ result.err = Nil => (done /\ streamErr = Nil)
      /\ (streamErr # Nil /\ "error" \notin ReceivedTypes) =>
            (result.err = streamErr /\ result.turn = EmptyTurn)

\* Run had consumed an item and turn.completed when the process exited with
\* a non-zero status: the exit error and an empty Turn are returned.
C26_Witness ==
    /\ RunReturned
    /\ items # <<>>
    /\ varUsage # NoUsage
    /\ streamErr = ExitError(1, "")
    /\ result.err = streamErr
    /\ result.turn = EmptyTurn

C26_WitnessDecode ==
    /\ RunReturned /\ varUsage # NoUsage
    /\ readErr # Nil /\ readErr # Canceled /\ result.err = streamErr
C26_WitnessCancel ==
    /\ RunReturned /\ varUsage # NoUsage
    /\ cancelBy = "caller" /\ result.err = Canceled

\* ------------------------------------------------- extractor: decode failures
IsAgentMessage(e, t) == e.Type = t /\ e.Item.Type = "agent_message"
BadFinals ==
    {i \in 1..Len(decoded) :
        IsAgentMessage(decoded[i], "item.completed")
          /\ Unmarshal(decoded[i].Item.Text).err # Nil}
FinalDecodeFailure(i) ==
    Wrap("decode structured output", Unmarshal(decoded[i].Item.Text).err)
\* The final-decode failure of event i is the first error of the extractor.
FailsFirst(i) ==
    /\ i \in BadFinals
    /\ \A j \in 1..(i - 1) : j \notin BadFinals /\ decoded[j].Type # "turn.failed"
AllUpdates == gotUpdates \o upBuf
SnapshotsDecodable ==
    \A k \in 1..Len(AllUpdates) : Unmarshal(AllUpdates[k].Raw).err = Nil

\* C27: in RunStreamedJSON no snapshot is emitted for a completed agent
\* message whose text does not decode into T, and when that failure is the
\* first error of the extractor and the stream ends without error, Wait
\* returns it, whatever turn.completed or turn.failed follows.
C27_FinalDecodeFailureReported ==
    api = "RunStreamedJSON" =>
      /\ SnapshotsDecodable
      /\ \A i \in 1..Len(decoded) :
           (FailsFirst(i) /\ waitResult # Pending /\ streamErr = Nil) =>
              waitResult = FinalDecodeFailure(i)

\* The same once the tap goroutine has finished before Wait is called.
FinalDecodeFailureKeptAfterDrain ==
    api = "RunStreamedJSON" =>
      /\ SnapshotsDecodable
      /\ \A i \in 1..Len(decoded) :
           (FailsFirst(i) /\ waitResult # Pending /\ waitDrained /\ streamErr = Nil) =>
              waitResult = FinalDecodeFailure(i)
      /\ \A i \in 1..Len(decoded) :
           (FailsFirst(i) /\ tpc = "done" /\ done /\ streamErr = Nil) =>
              shErr = FinalDecodeFailure(i)

BadUpdate(e) ==
    IsAgentMessage(e, "item.updated") /\ Unmarshal(e.Item.Text).err # Nil

\* C28: in RunStreamedJSON the tap's handling of an agent_message
\* item.updated event whose text does not decode into T changes nothing of
\* the extractor (no snapshot, no error, no flag) and goes on to offer the
\* event to Events(); no snapshot delivered carries a text that does not
\* decode, and the next event is received as after any other event.
C28_PartialUpdateSwallowed ==
    [][(api = "RunStreamedJSON" /\ tpc = "switch" /\ BadUpdate(tev) /\ tpc' # tpc) =>
          /\ tpc' = "sendEvent" /\ tev' = tev
          /\ shErr' = shErr /\ upBuf' = upBuf /\ gotUpdates' = gotUpdates
          /\ deliveredFinal' = deliveredFinal /\ turnCompleted' = turnCompleted
          /\ SnapshotsDecodable']_vars

\* An undecodable intermediate message was received from Events(), the final
\* message that followed produced the only snapshot, and Wait returned nil.
C28_Witness ==
    /\ api = "RunStreamedJSON"
    /\ Len(gotEvents) = 2
    /\ BadUpdate(gotEvents[1])
    /\ IsAgentMessage(gotEvents[2], "item.completed")
    /\ Len(gotUpdates) = 1 /\ gotUpdates[1].Final
    /\ tpc = "done"
    /\ waitResult = Nil

FinalDelivered == \E k \in 1..Len(AllUpdates) : AllUpdates[k].Final

\* C29: when a RunStreamedJSON run decoded turn.completed and Wait, called
\* after the tap goroutine has closed both channels, returned nil, a
\* snapshot with Final set was placed in the Updates() channel.
C29_NilMeansFinalDelivered ==
    (api = "RunStreamedJSON" /\ waitResult = Nil /\ waitDrained
       /\ "turn.completed" \in DecodedTypes) => FinalDelivered

TapStarted == api = "RunStreamedJSON" /\ tpc \notin {"idle", "prepare", "failed"}
TapFinished == ppc = "done" /\ tpc = "done" /\ evClosed /\ upClosed

\* C30: the RunStreamedJSON tap never waits for a reader: whatever the
\* caller reads or does not read, and without cancellation, the run ends
\* with both channels closed and Wait returns; the whole output has then been
\* consumed; and a delivery attempt always moves on, whether the event or
\* snapshot was placed, dropped, or the stream was done.
C30_TapNeverBlocks ==
    /\ TapStarted ~> TapFinished
    /\ TapStarted ~> (waitResult # Pending)
    /\ []((TapFinished /\ ~ctxDone) => Len(decoded) = Len(output))
    /\ [](tpc \in {"sendUpdate", "sendEvent"} => ENABLED <<TapSendUpdate \/ TapSendEvent>>_vars)

\* The caller read nothing while eighteen snapshots were produced: sixteen
\* are buffered in each channel, the run is over and Wait has returned.
C30_Witness ==
    /\ cpc = "stalled"
    /\ Len(output) = runStreamedJSONEventBuffer + 2
    /\ Len(upBuf) = runStreamedJSONEventBuffer
    /\ Len(evBuf) = runStreamedJSONEventBuffer
    /\ gotEvents = <<>> /\ gotUpdates = <<>>
    /\ TapFinished
    /\ ~ctxDone
    /\ waitResult = Nil

\* s is obtained from t by leaving elements out, order and number kept.
RECURSIVE IsSubseq(_, _)
IsSubseq(s, t) ==
    IF s = <<>> THEN TRUE
    ELSE IF t = <<>> THEN FALSE
    ELSE IF Head(s) = Head(t) THEN IsSubseq(Tail(s), Tail(t))
    ELSE IsSubseq(s, Tail(t))
Prefix(s, n) == SubSeq(s, 1, n)
AllEvents == gotEvents \o evBuf
\* The tap's own step out of a delivery attempt.
TapLeaves(pc) == api = "RunStreamedJSON" /\ tpc = pc /\ tpc' # tpc

\* C31: in RunStreamedJSON what Events() has yielded and still holds is the
\* decoded events with some left out, in order and without repetition, and
\* likewise Updates() and the snapshots of the decoded events; neither
\* channel holds more than 16; for a caller that reads nothing the channels
\* hold the first events the tap received and their first snapshots; and a
\* delivery attempt that finds room and the stream not done places its event
\* or snapshot, so one is left out only with the buffer full or the stream done.
C31_OrderPreservingSubsequence ==
    /\ [](api = "RunStreamedJSON" =>
            /\ IsSubseq(AllEvents, decoded)
            /\ IsSubseq(AllUpdates, Snapshots(decoded))
            /\ Len(evBuf) <= runStreamedJSONEventBuffer
            /\ Len(upBuf) <= runStreamedJSONEventBuffer
            /\ (cpc = "stalled") =>
                  /\ evBuf = Prefix(received, Len(evBuf))
                  /\ upBuf = Prefix(Snapshots(received), Len(upBuf)))
    /\ [][(TapLeaves("sendEvent") =>
              /\ evBuf' \in {evBuf, Append(evBuf, tev)}
              /\ (evBuf' = evBuf) => (Len(evBuf) >= runStreamedJSONEventBuffer \/ done)
              /\ (tpc' = "exit") => done)
           /\
           (TapLeaves("sendUpdate") =>
              /\ upBuf' \in {upBuf, Append(upBuf, SnapshotOf(tev))}
              /\ (upBuf' = upBuf) => (Len(upBuf) >= runStreamedJSONEventBuffer \/ done)
              /\ (tpc' = "exit") => done)]_vars

\* Seventeen events reached the tap of a caller that reads nothing: the
\* first sixteen and their snapshots are buffered, the last was left out.
C31_Witness ==
    /\ cpc = "stalled"
    /\ Len(received) = runStreamedJSONEventBuffer + 1
    /\ Len(evBuf) = runStreamedJSONEventBuffer
    /\ Len(upBuf) = runStreamedJSONEventBuffer
    /\ evBuf = Prefix(received, runStreamedJSONEventBuffer)
    /\ tpc = "done"

\* C32: when Wait of a RunStreamedJSON run has returned and the stream ended
\* without error, the value it returned is the error the extractor holds
\* once the tap goroutine has finished: nothing is recorded after Wait.
C32_WaitSeesEveryExtractorError ==
    (api = "RunStreamedJSON" /\ waitResult # Pending /\ streamErr = Nil /\ tpc = "done")
       => waitResult = shErr

\* ------------------------------------------------------ Runner.Run outcome
\* The step in which Runner.Run computes the value it returns.
RunnerReturns == ppc = "wait" /\ ppc' = "seterr"
AllLinesHandled ==
    /\ readErr = Nil
    /\ stdout = <<>>
    /\ Len(decoded) = Len(output)

ContextError(e) == ErrorsIs(e, Canceled) \/ ErrorsIs(e, DeadlineExceeded)
ReadErrors ==
    {Nil, Canceled, DeadlineExceeded, ErrTooLong, Wrap("parse event", ErrTooLong)}
WaitErrors == {WaitErr(p, c, t) : p \in {"exited", "killed"}, c \in {0, 1}, t \in StderrTexts}

HandlerReturnedContextError ==
    /\ ctxDone /\ readErr = Canceled /\ proc = "killed" /\ runRet = Canceled

\* An oversized line and a cancelled context: the scanner's error is returned.
ScannerErrorTakesPrecedence ==
    /\ ctxDone /\ readErr = ErrTooLong /\ proc = "killed"
    /\ runRet = Wrap("reading codex output", ErrTooLong)

LongLineAt == {i \in 1..Len(output) : TooLong(output[i])}
FirstLong == CHOOSE i \in LongLineAt : \A j \in LongLineAt : i <= j
\* The scanner has met an oversized line.
LongLineMet == LongLineAt # {} /\ readErr = ErrTooLong
\* Runner.Run waits in cmd.Wait() for a subprocess that waits for its
\* output to be read, and nothing cancels the context.
RunnerStuck == ppc = "wait" /\ proc = "running" /\ WriterBlocked /\ ~ctxDone

\* What holds of an oversized line whenever Run does return.
OversizedLineNeverHandled ==
    /\ \A i \in 1..Len(decoded) : i < FirstLong /\ decoded[i] = EventOf(output[i])
    /\ LongLineMet =>
          /\ Len(decoded) = FirstLong - 1
          /\ ppc \notin {"scan", "handle", "send"}
          /\ ppc \in {"seterr", "cleanup", "finish", "done"} =>
                runRet = Wrap("reading codex output", ErrTooLong)
          /\ waitResult # Pending => waitResult # Nil

\* C35: a line over the 4 MiB cap is never handed to the line handler: the
\* events decoded are those of the lines before it; once the scanner has met
\* it no further line is read, Runner.Run returns (it is not left waiting
\* for the subprocess) and what it returns is the wrapped scanner error, so
\* that Wait does not report success.
C35_OversizedLineFailsLoudly ==
    (LongLineAt # {}) =>
       /\ OversizedLineNeverHandled
       /\ LongLineMet => ~RunnerStuck

\* ------------------------------------------------------- temporary images
\* The positions, ascending, of the first n segments that carry a cleanup.
Carriers(n) ==
    LET at == SelectSeq([i \in 1..n |-> i], LAMBDA i : inSegments[i].cleanup)
    IN at
Ran == {released[k] : k \in 1..Len(released)}
FirstInvalid == CHOOSE i \in InvalidAt : \A j \in InvalidAt : i <= j

\* What normalizeInput does release: on success everything, by the returned
\* cleanup; on rejection the cleanups of the segments up to the invalid one.
ReleasedUpToInvalid ==
    /\ ipc \in {"normalized", "running"} =>
          /\ cleanupAll(cleanups) = cleanupAll(Carriers(Len(inSegments)))
          /\ released \in {<<>>, cleanupAll(Carriers(Len(inSegments)))}
    /\ ipc = "failed" => released = cleanupAll(Carriers(FirstInvalid))

\* C36: after a successful normalizeInput the returned cleanup runs the
\* cleanup of every segment that carries one, last segment first; and when
\* normalizeInput has rejected the list, the cleanup of every segment of the
\* list that carries one has run, those after the invalid segment included.
C36_CleanupOnEveryPath ==
    /\ ipc \in {"normalized", "running"} =>
          /\ cleanupAll(cleanups) = cleanupAll(Carriers(Len(inSegments)))
          /\ released \in {<<>>, cleanupAll(Carriers(Len(inSegments)))}
    /\ ipc = "failed" =>
          \A i \in 1..Len(inSegments) : inSegments[i].cleanup => i \in Ran

\* ---------------------------------------------------------- shutdown order
\* The error the producer records: the stream-level error, else Run's result.
TerminalError == IF threadErr # Nil THEN threadErr ELSE runRet

\* C37: the producer of a streaming run shuts down in a fixed order: the
\* terminal error is recorded and done is closed while the schema file is
\* still in place and Events() open; the schema file is removed only after
\* that; Events() is closed only after both.  So a caller that has seen
\* Events() closed can return from Wait at once, the value is the terminal
\* error, and nothing changes it afterwards.
C37_ShutdownOrder ==
    /\ []((turnOpts.OutputSchema /\ ~schemaFile) => done)
    /\ [](eventsClosed => (done /\ ~schemaFile /\ ppc = "done"))
    /\ []((cpc = "closed" /\ waitResult = Pending) => ENABLED ConsumerWait)
    /\ []((cpc = "closed" /\ waitResult # Pending) => waitResult = TerminalError)
    /\ [][(~done /\ done') =>
            /\ streamErr' = TerminalError
            /\ schemaFile' = schemaFile /\ ~eventsClosed']_vars
    /\ [][(schemaFile /\ ~schemaFile') => (done /\ ~eventsClosed')]_vars
    /\ [][done => (done' /\ streamErr' = streamErr)]_vars

\* A run with a schema file whose caller saw Events() closed before calling
\* Wait, and Wait returned the exit error that had been recorded.
C37_Witness ==
    /\ turnOpts.OutputSchema
    /\ cpc = "closed"
    /\ waitDrained
    /\ waitResult = ExitError(1, "")
    /\ Len(received) = 2

\* C38: in a streaming run the error slot and done change in one step only,
\* the producer's call of setErr, taken with done still open; the deferred
\* finish finds done closed and changes neither, so done is closed once; a
\* finished producer has closed it; and what Wait (or Close, which cancels
\* and then waits) returned is what the slot holds ever after, so any later
\* call returns the same value, also when the context is cancelled after the
\* run has finished.
C38_RecordedExactlyOnce ==
    /\ [][(streamErr' # streamErr \/ done' # done) =>
            (~done /\ done' /\ ppc = "seterr" /\ ppc' = "cleanup")]_vars
    /\ [][(ppc = "finish" /\ ppc' = "done") =>
            (done /\ done' /\ streamErr' = streamErr)]_vars
    /\ [](ppc \in {"cleanup", "finish", "done"} => done)
    /\ [](waitResult # Pending => (done /\ waitResult = streamErr))

\* The run finished without error, Wait returned nil, and the context was
\* cancelled only after Run had returned: the recorded value stayed nil.
C38_Witness ==
    /\ ppc = "done" /\ done
    /\ Len(output) = 2 /\ Len(received) = 2
    /\ ctxDone /\ proc = "exited"
    /\ streamErr = Nil
    /\ waitResult = Nil

\* ------------------------------------------------------- thread identifier
RECURSIVE LastStartedID(_)
\* The thread_id of the last thread.started event of evs, "" without one.
LastStartedID(evs) ==
    IF evs = <<>> THEN ""
    ELSE IF evs[Len(evs)].Type = "thread.started" THEN evs[Len(evs)].ThreadID
    ELSE LastStartedID(SubSeq(evs, 1, Len(evs) - 1))
\* The caller takes an event from Events() in this step.
Receives == Len(received') = Len(received) + 1
Delivered == received'[Len(received')]

\* C39: the identifier is stored before its event is offered: Thread.ID()
\* is at every moment the thread_id of the last thread.started event
\* decoded; at most one decoded event is not yet received; and in the step
\* in which the caller receives a thread.started event from Events(),
\* Thread.ID() is that event's thread_id before the step and after it.
C39_IdentifierPublishedFirst ==
    /\ [](threadID = LastStartedID(decoded))
    /\ [](IsPrefix(received, decoded) /\ Len(decoded) <= Len(received) + 1)
    /\ [][(Receives /\ Delivered.Type = "thread.started") =>
            (threadID = Delivered.ThreadID /\ threadID' = Delivered.ThreadID)]_vars

\* The caller has received thread.started of thread "B" as the second event
\* of a run and Thread.ID() is "B".
C39_Witness ==
    /\ Len(received) = 2
    /\ received[2].Type = "thread.started"
    /\ received[2].ThreadID = "B"
    /\ received[1].Type = "thread.started"
    /\ received[1].ThreadID = "A"
    /\ threadID = "B"

\* ------------------------------------------- RunJSON against RunStreamedJSON
FinalUpdates == SelectSeq(gotUpdates, LAMBDA u : u.Final)
\* RunJSON has returned, RunStreamedJSON was then started on the same output
\* and its Wait, called after both channels were drained, has returned.
BothReturned ==
    /\ api = "RunStreamedJSON" /\ tpc \notin {"prepare", "failed"}
    /\ result.returned
    /\ waitResult # Pending /\ waitDrained

\* C40: RunJSON and RunStreamedJSON over the same output with the same
\* options: RunJSON returned an error exactly when Wait of RunStreamedJSON,
\* called after both channels were drained, returned one; and when neither
\* did, a Final snapshot was delivered and the value RunJSON returned is the
\* Value of the last one.
C40_SameOutcome ==
    BothReturned =>
      /\ (result.err # Nil) <=> (waitResult # Nil)
      /\ (result.err = Nil /\ waitResult = Nil) =>
            /\ FinalUpdates # <<>>
            /\ result.value = FinalUpdates[Len(FinalUpdates)].Value

====
